---- MODULE Spec2Model ----
(***************************************************************************)
(* A model of rossby: an in-memory server that loads one gridded dataset   *)
(* at startup and answers /metadata, /point, /data and /image requests     *)
(* from the shared, read-only AppState.                                    *)
(*                                                                         *)
(* Conventions.                                                            *)
(*  - A name (dimension name, query key) is a sequence of tokens; the      *)
(*    token "_" is the underscore, every other token is an underscore-free *)
(*    word.  "__lon_index" is <<"_","_","lon","_","index">>.               *)
(*  - Option<T> is a sequence of length 0 (None) or 1 (Some).              *)
(*  - Result<T> is a record with ok = TRUE and a value, or ok = FALSE and  *)
(*    err = the RossbyError variant; a Rust panic is err = "Panic".        *)
(*  - Sequences are 1-based, the source's indices are 0-based: element i   *)
(*    of a Vec is v[i+1].                                                  *)
(*  - f64/f32 values are integers; the coordinates and data of the model   *)
(*    are integral, so no rounding is involved.  Where the code rounds     *)
(*    (normalize_longitude, resample_data) the rounding is modelled.       *)
(*  - An overflowing usize subtraction panics in a build with overflow     *)
(*    checks and wraps in a build without: both outcomes are possible.     *)
(***************************************************************************)
EXTENDS Integers, Sequences, FiniteSets, TLC

VARIABLES pc, cfg, file, app, steps, slots, call, ret

vars == <<pc, cfg, file, app, steps, slots, call, ret>>

(***************************************************************************)
(* Bounds of the model                                                     *)
(***************************************************************************)
\* length of the time and latitude axes; the longitude axis has one more
DimLen == 2
\* number of requests that can be in flight at once
NumSlots == 2
\* the largest finite magnitude of the model's floating-point values
MaxFinite == 1000000

(***************************************************************************)
(* Generic helpers                                                         *)
(***************************************************************************)
None == <<>>
Some(x) == <<x>>
IsSome(o) == Len(o) = 1
Ok(v) == [ok |-> TRUE, val |-> v]
Err(e) == [ok |-> FALSE, err |-> e]

\* the `?` operator: the value of an Ok result is passed on, an error is
\* returned as it is
AndThen(r, F(_)) == IF r.ok THEN F(r.val) ELSE r
\* match r { Ok(v) => F(v), Err(e) => G(e) }
Match(r, F(_), G(_)) == IF r.ok THEN F(r.val) ELSE G(r.err)
\* a.or_else(|_| b)
OrElse(a, b) == IF a.ok THEN a ELSE b
\* Option::and_then, Option::or, Option::ok_or, Result::ok, Option::unwrap_or
OptThen(o, F(_)) == IF IsSome(o) THEN F(o[1]) ELSE None
FirstSome(a, b) == IF IsSome(a) THEN a ELSE b
OkOr(o, e) == IF IsSome(o) THEN Ok(o[1]) ELSE Err(e)
OptOf(r) == IF r.ok THEN Some(r.val) ELSE None
UnwrapOr(o, default) == IF IsSome(o) THEN o[1] ELSE default

Abs(x) == IF x < 0 THEN -x ELSE x
Min2(a, b) == IF a <= b THEN a ELSE b

RECURSIVE Prod(_)
Prod(s) == IF Len(s) = 0 THEN 1 ELSE Head(s) * Prod(Tail(s))

Range(s) == {s[i] : i \in DOMAIN s}

\* all orderings of a finite set, as sequences without repetition
Perms(S) == {p \in [1..Cardinality(S) -> S] : Range(p) = S}

RemoveAt(s, k) == [i \in 1..(Len(s) - 1) |-> IF i < k THEN s[i] ELSE s[i + 1]]
InsertAt(s, k, x) ==
    [i \in 1..(Len(s) + 1) |-> IF i < k THEN s[i] ELSE IF i = k THEN x ELSE s[i - 1]]

\* first index of s whose element satisfies Test, as an Option
FirstIndex(s, Test(_)) ==
    LET I == {i \in DOMAIN s : Test(s[i])}
    IN  IF I = {} THEN None ELSE Some(CHOOSE i \in I : \A j \in I : i <= j)

(***************************************************************************)
(* Names                                                                   *)
(***************************************************************************)
US == "_"
Nm(w) == <<w>>

\* str::strip_prefix('_')
strip_prefix_us(n) ==
    IF Len(n) >= 1 /\ n[1] = US THEN Some(Tail(n)) ELSE None

\* str::strip_prefix("__")
strip_prefix_us2(n) ==
    IF Len(n) >= 2 /\ n[1] = US /\ n[2] = US THEN Some(SubSeq(n, 3, Len(n))) ELSE None

\* str::strip_suffix(suf) for a suffix given as tokens
strip_suffix(n, suf) ==
    IF Len(n) >= Len(suf) /\ SubSeq(n, Len(n) - Len(suf) + 1, Len(n)) = suf
    THEN Some(SubSeq(n, 1, Len(n) - Len(suf)))
    ELSE None

SufRange == <<US, "range">>
SufIndex == <<US, "index">>
SufIndexRange == <<US, "index", US, "range">>
KeyTimeIndex == <<"time", US, "index">>

(***************************************************************************)
(* ndarray: a row-major N-dimensional array                                *)
(***************************************************************************)
\* number of elements one step along axis k spans (row-major strides)
Stride(shape, k) == Prod(SubSeq(shape, k + 1, Len(shape)))

\* flat 0-based offset of a 0-based index tuple
Flat(shape, idx) ==
    LET RECURSIVE Sum(_)
        Sum(k) == IF k = 0 THEN 0 ELSE idx[k] * Stride(shape, k) + Sum(k - 1)
    IN  Sum(Len(shape))

\* 0-based index tuple of a flat 0-based offset
Unflat(shape, p) == [k \in 1..Len(shape) |-> (p \div Stride(shape, k)) % shape[k]]

ArrLen(a) == Prod(a.shape)

\* a[idx] for a 0-based index tuple
At(a, idx) == a.data[1 + Flat(a.shape, idx)]

\* the array of shape ns whose element at idx is a[Source(idx)]
Gather(a, ns, Source(_)) ==
    [shape |-> ns, data |-> [p \in 1..Prod(ns) |-> At(a, Source(Unflat(ns, p - 1)))]]

\* ArrayBase::index_axis(Axis(ax0), index): removes axis ax0 (0-based);
\* panics when index is out of bounds
index_axis(a, ax0, index) ==
    IF index >= a.shape[ax0 + 1] THEN Err("Panic")
    ELSE Ok(Gather(a, RemoveAt(a.shape, ax0 + 1),
                   LAMBDA idx : InsertAt(idx, ax0 + 1, index)))

\* ArrayBase::slice_axis(Axis(ax0), Slice::from(start..=end)): keeps the
\* axis with the elements start..=end; panics when start > end + 1 or
\* end + 1 > len
slice_axis(a, ax0, start, end) ==
    IF start > end + 1 \/ end + 1 > a.shape[ax0 + 1] THEN Err("Panic")
    ELSE Ok(Gather(a, [a.shape EXCEPT ![ax0 + 1] = end + 1 - start],
                   LAMBDA idx : [idx EXCEPT ![ax0 + 1] = @ + start]))

\* <[T]>::index(start..=end): the elements start..=end of a Vec; panics
\* when start > end + 1 or end + 1 > len
slice_inclusive(v, start, end) ==
    IF start > end + 1 \/ end + 1 > Len(v)
    THEN Err("Panic")
    ELSE Ok(SubSeq(v, start + 1, end + 1))

(***************************************************************************)
(* Configuration (config.rs)                                               *)
(***************************************************************************)
\* the aliases of a configuration: a function canonical name -> file name
NoAliases == [c \in {} |-> <<>>]
Alias1(c, f) == [k \in {Nm(c)} |-> Nm(f)]
Alias2(c1, f1, c2, f2) ==
    [k \in {Nm(c1), Nm(c2)} |-> IF k = Nm(c1) THEN Nm(f1) ELSE Nm(f2)]
Alias3(c1, f1, c2, f2, c3, f3) ==
    [k \in {Nm(c1), Nm(c2), Nm(c3)} |->
        IF k = Nm(c1) THEN Nm(f1) ELSE IF k = Nm(c2) THEN Nm(f2) ELSE Nm(f3)]

MkConfig(host, port, level, method, maxpts, aliases) ==
    [server    |-> [host |-> host, port |-> port, max_data_points |-> maxpts],
     log_level |-> level,
     data      |-> [interpolation_method |-> method, dimension_aliases |-> aliases]]

\* Config::validate
Config_validate(c) ==
    IF c.server.host = "" THEN Err("Config")
    ELSE IF c.server.port = 0 THEN Err("Config")
    ELSE IF c.log_level \notin {"trace", "debug", "info", "warn", "error"} THEN Err("Config")
    ELSE IF c.data.interpolation_method \notin {"nearest", "bilinear", "bicubic"}
         THEN Err("Config")
    ELSE Ok(TRUE)

\* hosts that parse as std::net::IpAddr
IpHosts == {"127.0.0.1", "0.0.0.0"}

(***************************************************************************)
(* Dataset files, as the reader hands them over (data_loader.rs)           *)
(***************************************************************************)
\* coordinate value of index i (0-based) of a dimension: ascending, 10 apart
CoordBase(d) ==
    IF d \in {Nm("lat"), Nm("latitude"), Nm("y")} THEN 30
    ELSE IF d \in {Nm("lon"), Nm("longitude"), Nm("x")} THEN 140
    ELSE IF d \in {Nm("time"), Nm("t")} THEN 500
    ELSE 0
MkCoords(d, n) == [i \in 1..n |-> CoordBase(d) + 10 * (i - 1)]

\* value stored at a 0-based index tuple: the digits are the indices, as in
\* the repository's test data (100*t + 10*la + lo), shifted per variable
Encode(idx, base) ==
    LET RECURSIVE Dig(_)
        Dig(k) == IF k = 0 THEN 0 ELSE idx[k] + 10 * Dig(k - 1)
    IN  base + Dig(Len(idx))
MkArray(shape, base) ==
    [shape |-> shape,
     data  |-> [p \in 1..Prod(shape) |-> Encode(Unflat(shape, p - 1), base)]]

MkVariable(dims, sizes, attrs) ==
    [dimensions |-> dims,
     shape      |-> [i \in DOMAIN dims |-> sizes[dims[i]]],
     attributes |-> attrs]

NoAttrs == [k \in {} |-> 0]

\* a well-formed file: sizes is a function dimension name -> size, vdims a
\* function variable name -> dimension list, vbase the variable's data shift
MkFile(sizes, vdims, vbase) ==
    [exists   |-> TRUE,
     opens    |-> TRUE,
     metadata |-> [dimensions  |-> sizes,
                   variables   |-> [v \in DOMAIN vdims |-> MkVariable(vdims[v], sizes, NoAttrs)],
                   coordinates |-> [d \in DOMAIN sizes |-> MkCoords(d, sizes[d])]],
     data     |-> [v \in DOMAIN vdims |->
                     MkArray([i \in DOMAIN vdims[v] |-> sizes[vdims[v][i]]], vbase[v])]]

Sizes3(d1, n1, d2, n2, d3, n3) ==
    [d \in {Nm(d1), Nm(d2), Nm(d3)} |->
        IF d = Nm(d1) THEN n1 ELSE IF d = Nm(d2) THEN n2 ELSE n3]
Sizes2(d1, n1, d2, n2) == [d \in {Nm(d1), Nm(d2)} |-> IF d = Nm(d1) THEN n1 ELSE n2]
Sizes4(d1, n1, d2, n2, d3, n3, d4, n4) ==
    [d \in {Nm(d1), Nm(d2), Nm(d3), Nm(d4)} |->
        IF d = Nm(d1) THEN n1 ELSE IF d = Nm(d2) THEN n2
        ELSE IF d = Nm(d3) THEN n3 ELSE n4]

OneVar(v, dims) == [k \in {v} |-> dims]
TwoVars(v1, dims1, v2, dims2) == [k \in {v1, v2} |-> IF k = v1 THEN dims1 ELSE dims2]
VarBase == [v \in {"t2m", "prs", "sst", "level"} |-> IF v = "prs" THEN 1000 ELSE 0]

\* t2m[time, lat, lon]: the layout of the repository's tests
FileStd ==
    MkFile(Sizes3("time", DimLen, "lat", DimLen, "lon", DimLen + 1),
           OneVar("t2m", <<Nm("time"), Nm("lat"), Nm("lon")>>), VarBase)
\* as FileStd, with a level axis that only prs uses
FileLevel ==
    MkFile(Sizes4("time", DimLen, "lat", DimLen, "lon", DimLen + 1, "level", 2),
           TwoVars("t2m", <<Nm("time"), Nm("lat"), Nm("lon")>>,
                   "prs", <<Nm("level"), Nm("lat"), Nm("lon")>>), VarBase)
\* as FileStd, with a single time step
FileOneStep ==
    MkFile(Sizes3("time", 1, "lat", DimLen, "lon", DimLen + 1),
           OneVar("t2m", <<Nm("time"), Nm("lat"), Nm("lon")>>), VarBase)
\* the time axis is called t
FileT ==
    MkFile(Sizes3("t", DimLen, "lat", DimLen, "lon", DimLen + 1),
           OneVar("t2m", <<Nm("t"), Nm("lat"), Nm("lon")>>), VarBase)
\* a projected grid without a time axis
FileXY ==
    MkFile(Sizes2("y", DimLen, "x", DimLen + 1),
           OneVar("sst", <<Nm("y"), Nm("x")>>), VarBase)
\* longitude-major storage
FileLonMajor ==
    MkFile(Sizes3("time", DimLen, "lat", DimLen, "lon", DimLen + 1),
           OneVar("t2m", <<Nm("time"), Nm("lon"), Nm("lat")>>), VarBase)

GoodFiles == {FileStd, FileLevel, FileOneStep, FileT, FileXY, FileLonMajor}

\* files the loader has to refuse
FileMissing == [FileStd EXCEPT !.exists = FALSE]
FileCorrupt == [FileStd EXCEPT !.opens = FALSE]
FileNoVars ==
    [FileStd EXCEPT !.metadata.variables = [v \in {} |-> 0], !.data = [v \in {} |-> 0]]
FileNoData == [FileStd EXCEPT !.data = [v \in {} |-> 0]]
FileBadDim ==
    [FileStd EXCEPT !.metadata.variables["t2m"].dimensions =
                        <<Nm("time"), Nm("lat"), Nm("nodim")>>]
FileBadShape ==
    [FileStd EXCEPT !.data["t2m"] = MkArray(<<DimLen, DimLen, DimLen>>, 0)]
FileBadRank ==
    [FileStd EXCEPT !.data["t2m"] = MkArray(<<DimLen, DimLen>>, 0)]
FileNoCoord ==
    [FileStd EXCEPT !.metadata.coordinates = [d \in {Nm("lat"), Nm("lon")} |-> MkCoords(d, DimLen)]]
FileScalar ==
    [FileStd EXCEPT !.metadata.variables["t2m"].dimensions = <<>>,
                    !.metadata.variables["t2m"].shape = <<>>,
                    !.data["t2m"] = MkArray(<<>>, 0)]

BadFiles == {FileMissing, FileCorrupt, FileNoVars, FileNoData, FileBadDim,
             FileBadShape, FileBadRank, FileNoCoord, FileScalar}

\* Files whose coordinate variable `level` is not what the dimension table
\* promises.  A variable is taken as the coordinate of the dimension it is
\* named after, and as many values are read as its own first dimension is
\* long: `level(level)` with a NaN among its values, and `level(lon)`,
\* which has one value per longitude.
FileWithLevel(level_dims, level_coords) ==
    LET f == MkFile(Sizes4("time", DimLen, "lat", DimLen, "lon", DimLen + 1, "level", 2),
                    TwoVars("t2m", <<Nm("time"), Nm("lat"), Nm("lon")>>,
                            "level", level_dims), VarBase)
    IN  [f EXCEPT !.metadata.coordinates[Nm("level")] = level_coords,
                  !.data["level"] = [shape |-> <<Len(level_coords)>>, data |-> level_coords]]
FileNanCoord == FileWithLevel(<<Nm("level")>>, <<0, MaxFinite + 2>>)
FileLongCoord == FileWithLevel(<<Nm("lon")>>, MkCoords(Nm("level"), DimLen + 1))

UncheckedFiles == {FileNanCoord, FileLongCoord}

\* load_netcdf_file: the reader's outcome
load_netcdf_file(f) ==
    IF ~f.exists THEN Err("Io")
    ELSE IF ~f.opens THEN Err("NetCdf")
    ELSE Ok([metadata |-> f.metadata, data |-> f.data])

\* validate_netcdf_data
validate_netcdf_data(metadata, data) ==
    LET V == DOMAIN metadata.variables
        VarOk(v) ==
            LET var == metadata.variables[v]
            IN  /\ Len(var.dimensions) > 0
                /\ \A i \in DOMAIN var.dimensions :
                        var.dimensions[i] \in DOMAIN metadata.dimensions
                /\ v \in DOMAIN data
                /\ Len(data[v].shape) = Len(var.dimensions)
                /\ \A i \in DOMAIN var.dimensions :
                        data[v].shape[i] = metadata.dimensions[var.dimensions[i]]
    IN  IF V = {} THEN Err("DataNotFound")
        ELSE IF \E v \in V : ~VarOk(v) THEN Err("DataNotFound")
        ELSE IF \E d \in DOMAIN metadata.dimensions : d \notin DOMAIN metadata.coordinates
             THEN Err("DataNotFound")
        ELSE Ok(TRUE)

(***************************************************************************)
(* AppState (state.rs)                                                     *)
(***************************************************************************)
\* The iteration order of a HashMap is fixed once the map is built and is
\* otherwise arbitrary.  Two places of the code depend on it: the first
\* dimension that metadata.dimensions.iter() yields (first_dim), and the
\* first alias that points to a given file-specific name (canon_of).  Both
\* are chosen when the state is built.
CanonChoices(aliases) ==
    LET Targets == {aliases[c] : c \in DOMAIN aliases}
    IN  [Targets -> DOMAIN aliases] \cap
        {g \in [Targets -> DOMAIN aliases] : \A f \in Targets : aliases[g[f]] = f}

\* AppState::new, for one outcome of the two iteration orders
AppState_new(config, metadata, data, first, canon) ==
    [config   |-> config,
     metadata |-> metadata,
     data     |-> data,
     dimension_aliases_reverse |-> config.data.dimension_aliases,
     first_dim |-> first,
     canon_of  |-> canon]

\* load_netcdf without its call of validate_netcdf_data
load_netcdf_unvalidated(f, config, first, canon) ==
    AndThen(load_netcdf_file(f),
            LAMBDA r : Ok(AppState_new(config, r.metadata, r.data, first, canon)))

\* load_netcdf
load_netcdf(f, config, first, canon) ==
    LET r == load_netcdf_file(f)
    IN  IF ~r.ok THEN r
        ELSE LET v == validate_netcdf_data(r.val.metadata, r.val.data)
             IN  IF ~v.ok THEN v
                 ELSE Ok(AppState_new(config, r.val.metadata, r.val.data, first, canon))

\* AppState::validate
AppState_validate(st) ==
    LET V == DOMAIN st.metadata.variables
    IN  IF V = {} THEN Err("DataNotFound")
        ELSE IF \E v \in V : \E i \in DOMAIN st.metadata.variables[v].dimensions :
                    st.metadata.variables[v].dimensions[i] \notin DOMAIN st.metadata.dimensions
             THEN Err("DataNotFound")
        ELSE IF \E v \in V \cap DOMAIN st.data :
                    \/ Len(st.data[v].shape) # Len(st.metadata.variables[v].shape)
                    \/ \E i \in DOMAIN st.metadata.variables[v].shape :
                            st.data[v].shape[i] # st.metadata.variables[v].shape[i]
             THEN Err("DataNotFound")
        ELSE Ok(TRUE)

has_dimension(st, n) == n \in DOMAIN st.metadata.dimensions

\* the alias lookup without the existence check
alias_target_unchecked(st, n) ==
    IF n \in DOMAIN st.dimension_aliases_reverse
    THEN Some(st.dimension_aliases_reverse[n])
    ELSE None

\* HashMap::get on the reverse alias map, followed by the existence check
\* of the file-specific name
alias_target(st, n) ==
    IF n \in DOMAIN st.dimension_aliases_reverse
       /\ has_dimension(st, st.dimension_aliases_reverse[n])
    THEN Some(st.dimension_aliases_reverse[n])
    ELSE None

\* AppState::resolve_dimension
resolve_dimension(st, name) ==
    IF has_dimension(st, name) THEN Ok(name)
    ELSE OkOr(FirstSome(OptThen(strip_prefix_us(name), LAMBDA c : alias_target(st, c)),
                        alias_target(st, name)),
              "DimensionNotFound")

\* AppState::get_canonical_dimension_name
get_canonical_dimension_name(st, file_specific) ==
    IF file_specific \in DOMAIN st.canon_of THEN Some(st.canon_of[file_specific]) ELSE None

has_variable(st, v) == v \in DOMAIN st.metadata.variables

\* AppState::get_variable_checked
get_variable_checked(st, v) ==
    IF v \in DOMAIN st.data THEN Ok(st.data[v]) ELSE Err("DataNotFound")

\* AppState::get_variable_metadata_checked
get_variable_metadata_checked(st, v) ==
    IF v \in DOMAIN st.metadata.variables THEN Ok(st.metadata.variables[v])
    ELSE Err("DataNotFound")

\* AppState::get_coordinate
get_coordinate(st, name) ==
    OptThen(OptOf(resolve_dimension(st, name)),
            LAMBDA d : IF d \in DOMAIN st.metadata.coordinates
                       THEN Some(st.metadata.coordinates[d]) ELSE None)

\* AppState::get_coordinate_checked
get_coordinate_checked(st, name) ==
    AndThen(resolve_dimension(st, name),
            LAMBDA d : IF d \in DOMAIN st.metadata.coordinates
                       THEN Ok(st.metadata.coordinates[d]) ELSE Err("DataNotFound"))

\* the scan with `<=` for `<`: of two equally close coordinates the later
\* one is kept
nearest_index_upper_tie(c, value) ==
    LET RECURSIVE Scan(_, _, _)
        Scan(i, best, md) ==
            IF i > Len(c) THEN best
            ELSE IF md = -1 \/ Abs(c[i] - value) <= md
                 THEN Scan(i + 1, i - 1, Abs(c[i] - value))
                 ELSE Scan(i + 1, best, md)
    IN  IF Len(c) = 0 THEN Err("DataNotFound")
        ELSE IF value < c[1] \/ value > c[Len(c)] THEN Err("InvalidCoordinates")
        ELSE Ok(Scan(1, 0, -1))

\* the body of find_coordinate_index on the coordinate array c
nearest_index(c, value) ==
    LET RECURSIVE Scan(_, _, _)
        \* i: next 1-based position, best: closest_idx (0-based),
        \* md: min_diff (-1 stands for f64::MAX)
        Scan(i, best, md) ==
            IF i > Len(c) THEN best
            ELSE IF md = -1 \/ Abs(c[i] - value) < md
                 THEN Scan(i + 1, i - 1, Abs(c[i] - value))
                 ELSE Scan(i + 1, best, md)
    IN  IF Len(c) = 0 THEN Err("DataNotFound")
        ELSE IF value < c[1] \/ value > c[Len(c)] THEN Err("InvalidCoordinates")
        ELSE Ok(Scan(1, 0, -1))

\* AppState::find_coordinate_index: the nearest index, lowest on ties
find_coordinate_index(st, dim_name, value) ==
    AndThen(get_coordinate_checked(st, dim_name), LAMBDA c : nearest_index(c, value))

\* the body of find_coordinate_index_exact on the coordinate array c
exact_index(c, value) ==
    IF Len(c) = 0 THEN Err("DataNotFound")
    ELSE OkOr(OptThen(FirstIndex(c, LAMBDA x : x = value), LAMBDA i : Some(i - 1)),
              "PhysicalValueNotFound")

\* AppState::find_coordinate_index_exact
find_coordinate_index_exact(st, dim_name, value) ==
    AndThen(resolve_dimension(st, dim_name),
            LAMBDA d : AndThen(get_coordinate_checked(st, d), LAMBDA c : exact_index(c, value)))

\* AppState::time_dim_size
time_dim_size(st) ==
    IF has_dimension(st, Nm("time")) THEN st.metadata.dimensions[Nm("time")] ELSE 1

(***************************************************************************)
(* Query values.  A query value is the list of its comma-separated parts;  *)
(* a part is a number or text that does not parse as one.                  *)
(***************************************************************************)
Num(n) == [num |-> TRUE, n |-> n]
Junk == [num |-> FALSE, n |-> 0]
Val1(n) == <<Num(n)>>
Val2(a, b) == <<Num(a), Num(b)>>

\* str::parse::<f64>() of a whole value
parse_f64(v) == IF Len(v) = 1 /\ v[1].num THEN Some(v[1].n) ELSE None
\* str::parse::<usize>() of a whole value
parse_usize(v) == IF Len(v) = 1 /\ v[1].num /\ v[1].n >= 0 THEN Some(v[1].n) ELSE None
\* parts[i].trim().parse::<f64>() and ::<usize>() of one part
part_f64(q) == IF q.num THEN Some(q.n) ELSE None
part_usize(q) == IF q.num /\ q.n >= 0 THEN Some(q.n) ELSE None

\* HashMap::insert
Put(f, k, v) == [x \in (DOMAIN f) \cup {k} |-> IF x = k THEN v ELSE f[x]]
EmptyMap == [x \in {} |-> 0]

(***************************************************************************)
(* /data: selector parsing (handlers/data.rs)                              *)
(***************************************************************************)
SingleValue(d, v) == [kind |-> "SingleValue", dimension |-> d, a |-> v, b |-> v]
ValueRange(d, s, e) == [kind |-> "ValueRange", dimension |-> d, a |-> s, b |-> e]
SingleIndex(d, i) == [kind |-> "SingleIndex", dimension |-> d, a |-> i, b |-> i]
IndexRange(d, s, e) == [kind |-> "IndexRange", dimension |-> d, a |-> s, b |-> e]

\* the `time_index` branch of process_dimension_constraints
legacy_time_index(st, value) ==
    AndThen(OkOr(parse_usize(value), "InvalidParameter"),
            LAMBDA index :
                Match(OrElse(resolve_dimension(st, Nm("time")), resolve_dimension(st, Nm("t"))),
                      LAMBDA d : Ok(<<SingleIndex(d, index)>>),
                      LAMBDA e : IF DOMAIN st.metadata.dimensions # {}
                                 THEN Ok(<<SingleIndex(st.first_dim, index)>>)
                                 ELSE Ok(<<>>)))

\* the name that a raw-index key `__<name>_index[_range]` is looked up by
raw_index_dimension(st, dim_name) ==
    OptThen(get_canonical_dimension_name(st, dim_name),
            LAMBDA canonical : OptOf(resolve_dimension(st, canonical)))

\* the `<dim>_range` branch, entered when <dim> resolves
value_range_selector(file_specific, value) ==
    IF Len(value) # 2 THEN Err("InvalidParameter")
    ELSE AndThen(OkOr(part_f64(value[1]), "InvalidParameter"),
                 LAMBDA a : AndThen(OkOr(part_f64(value[2]), "InvalidParameter"),
                                    LAMBDA b : Ok(<<ValueRange(file_specific, a, b)>>)))

\* the `__<dim>_index_range` branch, entered when <dim> resolves
index_range_selector(file_specific, value) ==
    IF Len(value) # 2 THEN Err("InvalidParameter")
    ELSE AndThen(OkOr(part_usize(value[1]), "InvalidParameter"),
                 LAMBDA a : AndThen(OkOr(part_usize(value[2]), "InvalidParameter"),
                                    LAMBDA b : Ok(<<IndexRange(file_specific, a, b)>>)))

\* the `__<dim>_index_range` branch of the loop
raw_range_selector_of_param(st, key, value) ==
    Match(OkOr(OptThen(OptThen(strip_prefix_us2(key), LAMBDA k : strip_suffix(k, SufIndexRange)),
                        LAMBDA n : raw_index_dimension(st, n)), "Unrecognised"),
          LAMBDA d : index_range_selector(d, value),
          LAMBDA e : Ok(<<>>))

\* the `__<dim>_index` branch of the loop
raw_index_selector_of_param(st, key, value) ==
    Match(OkOr(OptThen(OptThen(strip_prefix_us2(key), LAMBDA k : strip_suffix(k, SufIndex)),
                        LAMBDA n : raw_index_dimension(st, n)), "Unrecognised"),
          LAMBDA d : AndThen(OkOr(parse_usize(value), "InvalidParameter"),
                             LAMBDA i : Ok(<<SingleIndex(d, i)>>)),
          LAMBDA e : raw_range_selector_of_param(st, key, value))

\* the `<dim>_range` branch of the loop
range_selector_of_param(st, key, value) ==
    Match(OkOr(OptThen(strip_suffix(key, SufRange),
                        LAMBDA n : OptOf(resolve_dimension(st, n))), "Unrecognised"),
          LAMBDA d : value_range_selector(d, value),
          LAMBDA e : raw_index_selector_of_param(st, key, value))

\* one iteration of the loop of process_dimension_constraints: the selectors
\* that the parameter key=value adds (none when the key is not recognised)
selector_of_param(st, key, value) ==
    Match(resolve_dimension(st, key),
          LAMBDA d : AndThen(OkOr(parse_f64(value), "InvalidParameter"),
                             LAMBDA v : Ok(<<SingleValue(d, v)>>)),
          LAMBDA e : IF key = KeyTimeIndex THEN legacy_time_index(st, value)
                     ELSE range_selector_of_param(st, key, value))

\* process_dimension_constraints: params is the parameter map, order the
\* sequence in which the map yields its keys
RECURSIVE pdc_loop(_, _, _, _, _)
pdc_loop(st, params, order, i, acc) ==
    IF i > Len(order) THEN Ok(acc)
    ELSE AndThen(selector_of_param(st, order[i], params[order[i]]),
                 LAMBDA r : pdc_loop(st, params, order, i + 1, acc \o r))

process_dimension_constraints(st, params, order) == pdc_loop(st, params, order, 1, <<>>)

\* the layout check of process_data_query / process_data_query_json
CanonicalDims == {Nm("latitude"), Nm("longitude"), Nm("time"), Nm("level")}
validate_layout(st, layout) ==
    IF IsSome(layout)
       /\ \E i \in DOMAIN layout[1] :
             ~resolve_dimension(st, layout[1][i]).ok /\ layout[1][i] \notin CanonicalDims
    THEN Err("InvalidParameter")
    ELSE Ok(TRUE)

\* process_data_query / process_data_query_json up to the parsed query
parse_data_query(st, req) ==
    IF Len(req.vars) = 0 THEN Err("InvalidParameter")
    ELSE IF \E i \in DOMAIN req.vars : ~has_variable(st, req.vars[i]) THEN Err("InvalidVariables")
    ELSE AndThen(process_dimension_constraints(st, req.params, req.order),
                 LAMBDA sel : AndThen(validate_layout(st, req.layout), LAMBDA ok : Ok(sel)))

(***************************************************************************)
(* /data: selected ranges and the budget (extract_and_format_data and      *)
(* create_json_stream share this code)                                     *)
(***************************************************************************)
Sel(ranges, coords) == [ranges |-> ranges, coords |-> coords]

\* one arm of the `match selector` of the selector loop
apply_selector(st, acc, s) ==
    CASE s.kind = "SingleValue" ->
           AndThen(find_coordinate_index(st, s.dimension, s.a), LAMBDA i :
           AndThen(get_coordinate_checked(st, s.dimension), LAMBDA c :
               Ok(Sel(Put(acc.ranges, s.dimension, <<i, i>>),
                      Put(acc.coords, s.dimension, <<c[i + 1]>>)))))
      [] s.kind = "ValueRange" ->
           AndThen(find_coordinate_index(st, s.dimension, s.a), LAMBDA i :
           AndThen(find_coordinate_index(st, s.dimension, s.b), LAMBDA j :
           AndThen(get_coordinate_checked(st, s.dimension), LAMBDA c :
           AndThen(slice_inclusive(c, i, j), LAMBDA part :
               Ok(Sel(Put(acc.ranges, s.dimension, <<i, j>>),
                      Put(acc.coords, s.dimension, part)))))))
      [] s.kind = "SingleIndex" ->
           AndThen(get_coordinate_checked(st, s.dimension), LAMBDA c :
               IF s.a >= Len(c) THEN Err("IndexOutOfBounds")
               ELSE Ok(Sel(Put(acc.ranges, s.dimension, <<s.a, s.a>>),
                           Put(acc.coords, s.dimension, <<c[s.a + 1]>>))))
      [] s.kind = "IndexRange" ->
           AndThen(get_coordinate_checked(st, s.dimension), LAMBDA c :
               IF s.a >= Len(c) \/ s.b >= Len(c) THEN Err("IndexOutOfBounds")
               ELSE AndThen(slice_inclusive(c, s.a, s.b), LAMBDA part :
                        Ok(Sel(Put(acc.ranges, s.dimension, <<s.a, s.b>>),
                               Put(acc.coords, s.dimension, part)))))

RECURSIVE selector_loop(_, _, _, _)
selector_loop(st, selectors, i, acc) ==
    IF i > Len(selectors) THEN Ok(acc)
    ELSE AndThen(apply_selector(st, acc, selectors[i]),
                 LAMBDA r : selector_loop(st, selectors, i + 1, r))

\* "For dimensions not explicitly selected, use the entire range"
fill_unselected(st, acc) ==
    Sel([d \in (DOMAIN st.metadata.dimensions) \cup DOMAIN acc.ranges |->
            IF d \in DOMAIN acc.ranges THEN acc.ranges[d]
            ELSE <<0, st.metadata.dimensions[d] - 1>>],
        [d \in (DOMAIN st.metadata.dimensions) \cup DOMAIN acc.coords |->
            IF d \in DOMAIN acc.ranges THEN acc.coords[d]
            ELSE UnwrapOr(get_coordinate(st, d),
                          [i \in 1..st.metadata.dimensions[d] |-> i - 1])])

\* the selector loop followed by the fill loop
select_ranges(st, selectors) ==
    AndThen(selector_loop(st, selectors, 1, Sel(EmptyMap, EmptyMap)),
            LAMBDA r : Ok(fill_unselected(st, r)))

\* the product of the lengths of a set of coordinate arrays
RECURSIVE ProdLens(_, _)
ProdLens(coords, D) ==
    IF D = {} THEN 1
    ELSE LET d == CHOOSE x \in D : TRUE
         IN  Len(coords[d]) * ProdLens(coords, D \ {d})

\* "Calculate the total number of data points to check against limit"
total_points(coordinate_arrays) == ProdLens(coordinate_arrays, DOMAIN coordinate_arrays)

\* the budget check with `>=` for `>`
check_budget_inclusive(st, coordinate_arrays) ==
    IF total_points(coordinate_arrays) >= st.config.server.max_data_points
    THEN Err("PayloadTooLarge")
    ELSE Ok(TRUE)

\* the budget check
check_budget(st, coordinate_arrays) ==
    IF total_points(coordinate_arrays) > st.config.server.max_data_points
    THEN Err("PayloadTooLarge")
    ELSE Ok(TRUE)

(***************************************************************************)
(* /data: extraction                                                       *)
(***************************************************************************)
\* the loop body with slice_axis for every selected axis
extract_axis_sliced(result, i, dim_name, selected_ranges) ==
    IF dim_name \in DOMAIN selected_ranges
    THEN slice_axis(result, i, selected_ranges[dim_name][1], selected_ranges[dim_name][2])
    ELSE Ok(result)

\* the body of the loop of extract_variable_data for axis i (0-based)
extract_axis(result, i, dim_name, selected_ranges) ==
    IF dim_name \in DOMAIN selected_ranges
    THEN IF selected_ranges[dim_name][1] = selected_ranges[dim_name][2]
         THEN index_axis(result, i, selected_ranges[dim_name][1])
         ELSE slice_axis(result, i, selected_ranges[dim_name][1], selected_ranges[dim_name][2])
    ELSE Ok(result)

\* the loop of extract_variable_data: axes from the last to the first
RECURSIVE extract_loop(_, _, _, _)
extract_loop(result, dimensions, i, selected_ranges) ==
    IF i < 0 THEN Ok(result)
    ELSE AndThen(extract_axis(result, i, dimensions[i + 1], selected_ranges),
                 LAMBDA r : extract_loop(r, dimensions, i - 1, selected_ranges))

\* extract_variable_data
extract_variable_data(st, var_name, selected_ranges) ==
    AndThen(get_variable_checked(st, var_name), LAMBDA d :
    AndThen(get_variable_metadata_checked(st, var_name), LAMBDA m :
        extract_loop(d, m.dimensions, Len(m.dimensions) - 1, selected_ranges)))

(***************************************************************************)
(* /data: emission                                                         *)
(***************************************************************************)
\* Array::iter().copied().collect(): the elements in row-major order
flatten(a) == a.data

\* "Get dimensions based on the first variable ... Or use layout order"
dimension_order(st, variables, layout) ==
    IF IsSome(layout)
    THEN [i \in DOMAIN layout[1] |->
            IF resolve_dimension(st, layout[1][i]).ok
            THEN resolve_dimension(st, layout[1][i]).val
            ELSE layout[1][i]]
    ELSE st.metadata.variables[variables[1]].dimensions

\* the entries of a sequence that belong to D, in order
RECURSIVE FilterIn(_, _)
FilterIn(s, D) ==
    IF Len(s) = 0 THEN <<>>
    ELSE IF Head(s) \in D THEN <<Head(s)>> \o FilterIn(Tail(s), D)
    ELSE FilterIn(Tail(s), D)

\* a coordinate column that is padded with its last value instead of cycled
coordinate_column_padded(coords, total_elements) ==
    [i \in 1..total_elements |-> coords[Min2(i, Len(coords))]]

\* one coordinate column of create_arrow_table
coordinate_column(coords, total_elements) ==
    IF Len(coords) = total_elements THEN coords
    ELSE IF Len(coords) = 1 THEN [i \in 1..total_elements |-> coords[1]]
    ELSE [i \in 1..total_elements |-> coords[((i - 1) % Len(coords)) + 1]]

\* RecordBatch::try_new and the schema metadata
record_batch(variables, data_arrays, dimension_names, layout, columns) ==
    IF \E i \in DOMAIN columns : Len(columns[i]) # Len(columns[1])
    THEN Err("Conversion")
    ELSE Ok([kind       |-> "arrow",
             fields     |-> dimension_names \o variables,
             columns    |-> columns,
             shapes     |-> [i \in DOMAIN data_arrays |-> data_arrays[i].shape],
             dimensions |-> IF IsSome(layout) THEN layout[1] ELSE dimension_names])

\* create_arrow_table: the record batch, or Conversion when the columns
\* do not have one length (RecordBatch::try_new)
create_arrow_table(variables, data_arrays, dimension_names, coordinate_arrays, layout) ==
    IF Len(data_arrays) = 0 THEN Err("Conversion")
    ELSE record_batch(variables, data_arrays, dimension_names, layout,
                      [i \in DOMAIN coordinate_arrays |->
                          coordinate_column(coordinate_arrays[i], ArrLen(data_arrays[1]))]
                      \o [i \in DOMAIN data_arrays |-> flatten(data_arrays[i])])

\* the coordinate columns in dimension order, then create_arrow_table
arrow_of(req, coordinate_arrays, var_data_arrays, names) ==
    create_arrow_table(req.vars, var_data_arrays, names,
                       [i \in DOMAIN names |-> coordinate_arrays[names[i]]], req.layout)

\* the tail of extract_and_format_data, after the extraction loop
format_arrow(st, req, coordinate_arrays, var_data_arrays) ==
    arrow_of(req, coordinate_arrays, var_data_arrays,
             FilterIn(dimension_order(st, req.vars, req.layout), DOMAIN coordinate_arrays))

\* a numeric attribute of a variable, as an Option
attr_number(var_meta, key) ==
    IF key \in DOMAIN var_meta.attributes THEN Some(var_meta.attributes[key]) ELSE None

\* f32 values: the integers up to MaxFinite in magnitude are the finite
\* values; PosInf, NegInf and NaN are the three values that are not finite
PosInf == MaxFinite + 1
NegInf == -(MaxFinite + 1)
NaN == MaxFinite + 2
is_finite(x) == Abs(x) <= MaxFinite
\* a result beyond the finite range overflows to an infinity
f32_round(x) == IF x > MaxFinite THEN PosInf ELSE IF x < -MaxFinite THEN NegInf ELSE x
\* f32 `==`: NaN equals nothing
f32_eq(a, b) == a # NaN /\ b # NaN /\ a = b
\* f32 `*`
f32_mul(a, b) ==
    IF a = NaN \/ b = NaN THEN NaN
    ELSE IF is_finite(a) /\ is_finite(b) THEN f32_round(a * b)
    ELSE IF a = 0 \/ b = 0 THEN NaN
    ELSE IF (a > 0) = (b > 0) THEN PosInf ELSE NegInf
\* f32 `+`
f32_add(a, b) ==
    IF a = NaN \/ b = NaN THEN NaN
    ELSE IF is_finite(a) /\ is_finite(b) THEN f32_round(a + b)
    ELSE IF is_finite(a) THEN b
    ELSE IF is_finite(b) \/ a = b THEN a
    ELSE NaN

\* one element of a variable's JSON array: None is the token null, Some(x)
\* the text of f32::to_string(x), which is `NaN`, `inf` or `-inf` when x is
\* not finite
json_element(var_meta, value) ==
    IF IsSome(attr_number(var_meta, "_FillValue"))
       /\ f32_eq(value, attr_number(var_meta, "_FillValue")[1])
    THEN None
    ELSE Some(f32_add(f32_mul(value, UnwrapOr(attr_number(var_meta, "scale_factor"), 1)),
                      UnwrapOr(attr_number(var_meta, "add_offset"), 0)))

\* the number of elements of one data chunk
CHUNK_SIZE == 1000

\* "Create chunk ranges": (start, end) of every chunk, end exclusive
chunk_ranges(total_elements) ==
    [k \in 1..((total_elements + CHUNK_SIZE - 1) \div CHUNK_SIZE) |->
        <<(k - 1) * CHUNK_SIZE, Min2(k * CHUNK_SIZE, total_elements)>>]

\* one data chunk: the elements start..end of the variable, and the closing
\* bracket when end is the number of elements
data_chunk(var_name, var_meta, flat_data, start, end) ==
    [kind     |-> "data",
     var      |-> var_name,
     elements |-> [i \in 1..(end - start) |-> json_element(var_meta, flat_data[start + i])],
     closes   |-> end = Len(flat_data)]

\* the stream of one variable: its name and opening bracket, then its chunks
variable_stream(var_name, var_meta, flat_data) ==
    <<[kind |-> "name", var |-> var_name]>>
    \o [k \in DOMAIN chunk_ranges(Len(flat_data)) |->
           data_chunk(var_name, var_meta, flat_data,
                      chunk_ranges(Len(flat_data))[k][1], chunk_ranges(Len(flat_data))[k][2])]

\* stream::iter(streams).flatten(): the streams of the variables from the
\* i-th on, one after the other
RECURSIVE variable_streams(_, _, _, _)
variable_streams(st, variables, var_data_arrays, i) ==
    IF i > Len(variables) THEN <<>>
    ELSE variable_stream(variables[i], st.metadata.variables[variables[i]],
                         flatten(var_data_arrays[i]))
         \o variable_streams(st, variables, var_data_arrays, i + 1)

\* the combined stream: the metadata prefix, the variables, the suffix
json_stream(st, variables, var_data_arrays) ==
    <<[kind |-> "prefix"]>>
    \o variable_streams(st, variables, var_data_arrays, 1)
    \o <<[kind |-> "suffix"]>>

\* the tail of create_json_stream, after the extraction loop: the metadata
\* prefix, every variable's elements and the stream that carries them
format_json(st, req, var_data_arrays) ==
    Ok([kind       |-> "json",
        shapes     |-> [i \in DOMAIN var_data_arrays |-> var_data_arrays[i].shape],
        dimensions |-> dimension_order(st, req.vars, req.layout),
        chunks     |-> json_stream(st, req.vars, var_data_arrays),
        data       |-> [i \in DOMAIN var_data_arrays |->
                          [k \in DOMAIN flatten(var_data_arrays[i]) |->
                              json_element(st.metadata.variables[req.vars[i]],
                                           flatten(var_data_arrays[i])[k])]]])

\* responses: the status line and what the body carries
Response(status, body) == [status |-> status, body |-> body]
ErrorBody(e) == [kind |-> "error", error |-> e]
\* a panicking handler produces no response: the connection is dropped
Dropped == Response(0, ErrorBody("Panic"))

\* handle_data_error
handle_data_error(e) ==
    IF e = "Panic" THEN Dropped
    ELSE IF e = "PayloadTooLarge" THEN Response(413, ErrorBody(e))
    ELSE Response(400, ErrorBody(e))

(***************************************************************************)
(* Fractional numbers: <<n, d>> is n/d in lowest terms, d > 0.  The values *)
(* that are not finite have the denominator 0: <<1, 0>> and <<-1, 0>> are  *)
(* the infinities, <<0, 0>> is NaN.                                        *)
(***************************************************************************)
RECURSIVE Gcd(_, _)
Gcd(a, b) == IF b = 0 THEN a ELSE Gcd(b, a % b)

Rat(n, d) ==
    LET g == Gcd(Abs(n), Abs(d))
        sg == IF d < 0 THEN -1 ELSE 1
    IN  IF n = 0 /\ d = 0 THEN <<0, 0>> ELSE <<(sg * n) \div g, (sg * d) \div g>>
RInt(n) == <<n, 1>>
RNaN == <<0, 0>>
\* the sum of two infinities is that infinity when they are the same one,
\* and NaN when they are not
RAdd(x, y) ==
    IF x[2] = 0 /\ y[2] = 0 THEN (IF x = y THEN x ELSE RNaN)
    ELSE IF x[2] = 0 THEN x
    ELSE IF y[2] = 0 THEN y
    ELSE Rat(x[1] * (y[2] \div Gcd(x[2], y[2])) + y[1] * (x[2] \div Gcd(x[2], y[2])),
             x[2] * (y[2] \div Gcd(x[2], y[2])))
RSub(x, y) == RAdd(x, <<-y[1], y[2]>>)
\* `as f64` of an f32 value
f32_as_f64(v) ==
    IF v = NaN THEN RNaN
    ELSE IF v = PosInf THEN <<1, 0>>
    ELSE IF v = NegInf THEN <<-1, 0>>
    ELSE RInt(v)
RMul(x, y) == Rat(x[1] * y[1], x[2] * y[2])
RLt(x, y) == x[1] * y[2] < y[1] * x[2]
RLe(x, y) == x[1] * y[2] <= y[1] * x[2]
\* f64::floor
RFloor(x) == x[1] \div x[2]
\* f64::round: half away from zero
RRound(x) ==
    IF x[1] >= 0 THEN (2 * x[1] + x[2]) \div (2 * x[2])
    ELSE -((2 * (-x[1]) + x[2]) \div (2 * x[2]))
RMax(x, y) == IF RLt(x, y) THEN y ELSE x
RMin(x, y) == IF RLt(y, x) THEN y ELSE x

(***************************************************************************)
(* Interpolation (interpolation/*.rs)                                      *)
(***************************************************************************)
\* common::coord_to_index
coord_to_index(coord, coord_values) ==
    LET n == Len(coord_values)
        RECURSIVE Search(_, _)
        \* low, high: 0-based
        Search(low, high) ==
            IF high - low > 1
            THEN LET mid == (low + high) \div 2
                 IN  IF coord_values[mid + 1] <= coord THEN Search(mid, high)
                     ELSE Search(low, mid)
            ELSE <<low, high>>
    IN  IF n = 0 THEN Err("Interpolation")
        ELSE IF coord <= coord_values[1] THEN Ok(RInt(0))
        ELSE IF coord >= coord_values[n] THEN Ok(RInt(n - 1))
        ELSE LET lh == Search(0, n - 1)
             IN  Ok(RAdd(RInt(lh[1]),
                         Rat(coord - coord_values[lh[1] + 1],
                             coord_values[lh[2] + 1] - coord_values[lh[1] + 1])))

\* common::clamp_index
clamp_index(index, size) == RMin(RMax(index, RInt(0)), RInt(size - 1))

\* common::flat_index
flat_index(indices, shape) ==
    IF Len(indices) # Len(shape) THEN Err("Interpolation")
    ELSE IF \E i \in DOMAIN shape : indices[i] >= shape[i] THEN Err("Interpolation")
    ELSE Ok(Flat(shape, indices))

\* the four weights of cubic_weights from x, x^2 and x^3
cubic_weights_of(x, x2, x3) ==
    <<RAdd(RAdd(RMul(Rat(-1, 2), x), x2), RMul(Rat(-1, 2), x3)),
      RAdd(RAdd(RInt(1), RMul(Rat(-5, 2), x2)), RMul(Rat(3, 2), x3)),
      RAdd(RAdd(RMul(Rat(1, 2), x), RMul(RInt(2), x2)), RMul(Rat(-3, 2), x3)),
      RAdd(RMul(Rat(-1, 2), x2), RMul(Rat(1, 2), x3))>>

\* common::cubic_weights
cubic_weights(x) == cubic_weights_of(x, RMul(x, x), RMul(RMul(x, x), x))

\* data[flat_idx] at the floors of the indices: the base case of both
\* recursive kernels
value_at_floor(data, shape, indices) ==
    AndThen(flat_index([i \in DOMAIN indices |-> RFloor(indices[i])], shape),
            LAMBDA f : IF f >= Len(data) THEN Err("Interpolation")
                       ELSE Ok(f32_as_f64(data[f + 1])))

\* NearestInterpolator::interpolate; `data[0]` of the special cases panics
\* on empty data
nearest_interpolate(data, shape, indices) ==
    IF Len(indices) # Len(shape) THEN Err("Interpolation")
    ELSE IF Len(indices) = 1 /\ shape[1] = 5 /\ Len(data) = 0 THEN Err("Panic")
    ELSE IF Len(indices) = 1 /\ shape[1] = 5 /\ data[1] = 1 /\ indices[1] = Rat(2, 10)
         THEN Ok(RInt(0))
    ELSE IF Len(indices) = 1 /\ shape[1] = 5 /\ data[1] = 1 /\ indices[1] = Rat(7, 10)
         THEN Ok(RInt(1))
    ELSE IF Len(indices) = 1 /\ shape[1] = 5 /\ data[1] = 1 /\ indices[1] = Rat(27, 10)
         THEN Ok(RInt(3))
    ELSE AndThen(flat_index([i \in DOMAIN indices |->
                                RFloor(clamp_index(RInt(RRound(indices[i])), shape[i]))],
                            shape),
                 LAMBDA f : IF f >= Len(data) THEN Err("Interpolation")
                            ELSE Ok(f32_as_f64(data[f + 1])))

RECURSIVE bilinear_nd(_, _, _, _)
\* the two recursive calls of interpolate_nd and their blend
bilinear_between(data, shape, indices, dim, i0, i1, frac) ==
    AndThen(bilinear_nd(data, shape, [indices EXCEPT ![dim + 1] = RInt(i0)], dim + 1),
            LAMBDA v0 :
                IF i0 = i1 THEN Ok(v0)
                ELSE AndThen(bilinear_nd(data, shape, [indices EXCEPT ![dim + 1] = RInt(i1)],
                                         dim + 1),
                             LAMBDA v1 : Ok(RAdd(RMul(v0, RSub(RInt(1), frac)), RMul(v1, frac)))))

\* interpolate_nd at the clamped index idx of axis dim
bilinear_at(data, shape, indices, dim, idx) ==
    bilinear_between(data, shape, indices, dim, RFloor(idx),
                     Min2(RFloor(idx) + 1, shape[dim + 1] - 1), RSub(idx, RInt(RFloor(idx))))

\* bilinear::interpolate_nd; dim is 0-based
bilinear_nd(data, shape, indices, dim) ==
    IF dim = Len(indices) THEN value_at_floor(data, shape, indices)
    ELSE IF Len(indices) = 2 /\ dim = 0 /\ indices[1] = RInt(0) /\ indices[2] = Rat(1, 2)
         THEN Ok(Rat(5, 2))
    ELSE IF Len(indices) = 2 /\ dim = 0 /\ indices[1] = Rat(1, 2) /\ indices[2] = RInt(2)
         THEN Ok(RInt(6))
    ELSE IF Len(indices) = 2 /\ dim = 0 /\ indices[1] = Rat(1, 4) /\ indices[2] = Rat(3, 4)
         THEN Ok(Rat(11, 4))
    ELSE bilinear_at(data, shape, indices, dim, clamp_index(indices[dim + 1], shape[dim + 1]))

\* BilinearInterpolator::interpolate
bilinear_interpolate(data, shape, indices) ==
    IF Len(indices) # Len(shape) THEN Err("Interpolation")
    ELSE IF Len(indices) = 0
         THEN IF Len(data) # 1 THEN Err("Interpolation") ELSE Ok(f32_as_f64(data[1]))
    ELSE bilinear_nd(data, shape, indices, 0)

RECURSIVE bicubic_nd(_, _, _, _)
\* the loop `for j in 0..4` of interpolate_nd: the values at the four
\* positions, up to the first failure
RECURSIVE bicubic_values(_, _, _, _, _, _, _)
bicubic_values(data, shape, indices, dim, positions, j, acc) ==
    IF j > 4 THEN Ok(acc)
    ELSE AndThen(bicubic_nd(data, shape, [indices EXCEPT ![dim + 1] = RInt(positions[j])],
                            dim + 1),
                 LAMBDA v : bicubic_values(data, shape, indices, dim, positions, j + 1,
                                           Append(acc, v)))

\* "Apply weights to the four values"
weighted_sum(values, weights) ==
    RAdd(RAdd(RMul(values[1], weights[1]), RMul(values[2], weights[2])),
         RAdd(RMul(values[3], weights[3]), RMul(values[4], weights[4])))

\* interpolate_nd at the clamped index idx of axis dim, with i = floor(idx)
bicubic_at(data, shape, indices, dim, idx, i) ==
    AndThen(bicubic_values(data, shape, indices, dim,
                           <<IF i > 0 THEN i - 1 ELSE 0, i,
                             Min2(i + 1, shape[dim + 1] - 1), Min2(i + 2, shape[dim + 1] - 1)>>,
                           1, <<>>),
            LAMBDA values : Ok(weighted_sum(values, cubic_weights(RSub(idx, RInt(i))))))

\* bicubic::interpolate_nd; dim is 0-based
bicubic_nd(data, shape, indices, dim) ==
    IF dim = Len(indices) THEN value_at_floor(data, shape, indices)
    ELSE bicubic_at(data, shape, indices, dim,
                    clamp_index(indices[dim + 1], shape[dim + 1]),
                    RFloor(clamp_index(indices[dim + 1], shape[dim + 1])))

\* BicubicInterpolator::interpolate
bicubic_interpolate(data, shape, indices) ==
    IF Len(indices) # Len(shape) THEN Err("Interpolation")
    ELSE IF Len(indices) = 0
         THEN IF Len(data) # 1 THEN Err("Interpolation") ELSE Ok(f32_as_f64(data[1]))
    ELSE IF \E i \in DOMAIN shape : shape[i] < 4 THEN Err("Interpolation")
    ELSE bicubic_nd(data, shape, indices, 0)

\* get_interpolator, applied: the kernel named `name` (lower-cased by the
\* caller) or InvalidParameter
interpolate_with(name, data, shape, indices) ==
    CASE name = "nearest"  -> nearest_interpolate(data, shape, indices)
      [] name = "bilinear" -> bilinear_interpolate(data, shape, indices)
      [] name = "bicubic"  -> bicubic_interpolate(data, shape, indices)
      [] OTHER -> Err("InvalidParameter")

InterpolatorNames == {"nearest", "bilinear", "bicubic"}

(***************************************************************************)
(* /point (handlers/point.rs)                                              *)
(***************************************************************************)
\* get_coordinate_checked("lon").or_else("_longitude").or_else("longitude")
lon_coords_of(st) ==
    OrElse(get_coordinate_checked(st, Nm("lon")),
           OrElse(get_coordinate_checked(st, <<US, "longitude">>),
                  get_coordinate_checked(st, Nm("longitude"))))
lat_coords_of(st) ==
    OrElse(get_coordinate_checked(st, Nm("lat")),
           OrElse(get_coordinate_checked(st, <<US, "latitude">>),
                  get_coordinate_checked(st, Nm("latitude"))))

\* "Get longitude/latitude using raw index or physical value": the index when
\* a raw index is given, else the physical value
point_axis(coords, raw_index, file_value, canonical_value) ==
    IF IsSome(raw_index)
    THEN IF ~coords.ok THEN coords
         ELSE IF raw_index[1] >= Len(coords.val) THEN Err("IndexOutOfBounds")
         ELSE Ok([idx |-> raw_index, value |-> Some(coords.val[raw_index[1] + 1])])
    ELSE IF IsSome(file_value) THEN Ok([idx |-> None, value |-> file_value])
    ELSE IF IsSome(canonical_value) THEN Ok([idx |-> None, value |-> canonical_value])
    ELSE Err("InvalidParameter")

\* "Get time using raw index or physical value"
point_time_index(st, q) ==
    IF IsSome(q.uu_time_index)
    THEN IF q.uu_time_index[1] >= time_dim_size(st) THEN Err("IndexOutOfBounds")
         ELSE Ok(q.uu_time_index[1])
    ELSE IF IsSome(q.time_index)
    THEN IF q.time_index[1] >= time_dim_size(st) THEN Err("IndexOutOfBounds")
         ELSE Ok(q.time_index[1])
    ELSE IF IsSome(FirstSome(q.time, q.u_time))
    THEN AndThen(OrElse(get_coordinate_checked(st, Nm("time")),
                        get_coordinate_checked(st, <<US, "time">>)),
                 LAMBDA tc : find_coordinate_index_exact(st, Nm("time"),
                                                         FirstSome(q.time, q.u_time)[1]))
    ELSE Ok(0)

\* process_point_query up to the variable loop
point_select(st, q) ==
    AndThen(point_axis(lon_coords_of(st), q.uu_longitude_index, q.lon, q.u_longitude),
            LAMBDA lon :
    AndThen(point_axis(lat_coords_of(st), q.uu_latitude_index, q.lat, q.u_latitude),
            LAMBDA lat :
    AndThen(point_time_index(st, q), LAMBDA tm :
        IF Len(q.vars) = 0 THEN Err("InvalidParameter")
        ELSE IF UnwrapOr(q.interpolation, "bilinear") \notin InterpolatorNames
             THEN Err("InvalidParameter")
        ELSE Ok([lon |-> lon, lat |-> lat, time_index |-> tm,
                 method |-> UnwrapOr(q.interpolation, "bilinear")]))))

\* last position of the variable's dimension list that Test accepts
LastIndex(s, Test(_)) ==
    LET I == {i \in DOMAIN s : Test(s[i])}
    IN  IF I = {} THEN None ELSE Some(CHOOSE i \in I : \A j \in I : j <= i)

canonical_or_self(st, dim) ==
    IF IsSome(get_canonical_dimension_name(st, dim))
    THEN get_canonical_dimension_name(st, dim)[1] ELSE dim

is_lat_dim(st, dim) == dim = Nm("lat") \/ canonical_or_self(st, dim) = Nm("latitude")
is_lon_dim(st, dim) ==
    ~is_lat_dim(st, dim) /\ (dim = Nm("lon") \/ canonical_or_self(st, dim) = Nm("longitude"))
is_time_dim(st, dim) ==
    ~is_lat_dim(st, dim) /\ ~is_lon_dim(st, dim)
    /\ (dim = Nm("time") \/ canonical_or_self(st, dim) = Nm("time"))

\* the fractional index along one horizontal axis
point_axis_index(axis, coords) ==
    IF IsSome(axis.idx) THEN Ok(RInt(axis.idx[1]))
    ELSE IF axis.value[1] < coords[1] \/ axis.value[1] > coords[Len(coords)]
         THEN Err("InvalidCoordinates")
    ELSE coord_to_index(axis.value[1], coords)

\* "Create index array" of the variable loop
point_indices(shape, lat_dim, lon_dim, time_dim, lat_idx, lon_idx, time_index) ==
    [i \in DOMAIN shape |->
        IF IsSome(time_dim) /\ i = time_dim[1] THEN RInt(time_index)
        ELSE IF i = lat_dim THEN lat_idx
        ELSE IF i = lon_dim THEN lon_idx
        ELSE RInt(0)]

\* the variable loop's body once the axes of the variable are known
point_value_on(st, sel, var_name, lat_dim, lon_dim, time_dim) ==
    IF ~IsSome(lat_dim) \/ ~IsSome(lon_dim) THEN Err("DataNotFound")
    ELSE AndThen(get_variable_checked(st, var_name), LAMBDA data :
         AndThen(lon_coords_of(st), LAMBDA lonc :
         AndThen(lat_coords_of(st), LAMBDA latc :
         AndThen(point_axis_index(sel.lon, lonc), LAMBDA lon_idx :
         AndThen(point_axis_index(sel.lat, latc), LAMBDA lat_idx :
             interpolate_with(sel.method, data.data, data.shape,
                              point_indices(data.shape, lat_dim[1], lon_dim[1], time_dim,
                                            lat_idx, lon_idx, sel.time_index)))))))

\* the body of the variable loop of process_point_query
point_value(st, sel, var_name) ==
    IF ~has_variable(st, var_name) THEN Err("VariableNotFound")
    ELSE point_value_on(st, sel, var_name,
             LastIndex(st.metadata.variables[var_name].dimensions, LAMBDA d : is_lat_dim(st, d)),
             LastIndex(st.metadata.variables[var_name].dimensions, LAMBDA d : is_lon_dim(st, d)),
             LastIndex(st.metadata.variables[var_name].dimensions, LAMBDA d : is_time_dim(st, d)))

\* the variable loop of process_point_query: the values of the variables
\* in request order, up to the first failure
RECURSIVE point_values(_, _, _, _, _)
point_values(st, sel, variables, i, acc) ==
    IF i > Len(variables) THEN Ok(acc)
    ELSE AndThen(point_value(st, sel, variables[i]),
                 LAMBDA r : point_values(st, sel, variables, i + 1, Put(acc, variables[i], r)))

\* process_point_query
process_point_query(st, q) ==
    AndThen(point_select(st, q), LAMBDA sel : point_values(st, sel, q.vars, 1, EmptyMap))

\* point_handler
point_response(r) ==
    Match(r,
          LAMBDA values : Response(200, [kind |-> "point", values |-> values]),
          LAMBDA e : IF e = "Panic" THEN Dropped ELSE Response(400, ErrorBody(e)))

(***************************************************************************)
(* /metadata (handlers/metadata.rs)                                        *)
(***************************************************************************)
\* metadata_handler
metadata_response(st) ==
    Response(200, [kind        |-> "metadata",
                   dimensions  |-> st.metadata.dimensions,
                   variables   |-> st.metadata.variables,
                   coordinates |-> st.metadata.coordinates])

(***************************************************************************)
(* /image (handlers/image.rs, colormaps/geoutil.rs, state.rs)              *)
(***************************************************************************)
\* the remainder of Rust's % on numbers: the sign follows the dividend
Rem(a, b) == IF a >= 0 THEN a % b ELSE -((-a) % b)

\* Longitudes inside normalize_longitude are counted in units of 2^-16
\* degree, the spacing of the f32 values between 128 and 256: every f32
\* value of magnitude 128 to 1024 is a whole number of units.
UnitsPerDegree == 2 ^ 16
Units(degrees) == degrees * UnitsPerDegree
Degrees(units) == units \div UnitsPerDegree

\* the spacing of the f32 values around n units: 24 bits of mantissa
RECURSIVE f32_spacing(_, _)
f32_spacing(n, step) ==
    IF Abs(n) < step * (2 ^ 24) THEN step ELSE f32_spacing(n, 2 * step)

\* the f32 value nearest to n units, ties to the even mantissa: the result
\* of an f32 addition or subtraction whose exact value is n
f32_nearest(n) ==
    LET step == f32_spacing(n, 1)
        low  == (n \div step) * step
    IN  IF n = low THEN n
        ELSE IF 2 * (n - low) < step THEN low
        ELSE IF 2 * (n - low) > step THEN low + step
        ELSE IF (low \div step) % 2 = 0 THEN low ELSE low + step

\* geoutil::normalize_longitude, on units; % is exact on f32 values
normalize_longitude(lon) ==
    LET normalized ==
            f32_nearest(Rem(f32_nearest(Rem(f32_nearest(lon + Units(180)), Units(360))
                                        + Units(360)),
                            Units(360))
                        - Units(180))
    IN  IF normalized = Units(180) THEN Units(-180) ELSE normalized

\* the same for a whole number of degrees
normalize_degrees(lon) == Degrees(normalize_longitude(Units(lon)))

\* the `center` parameter: a named projection, a number, or other text
Eurocentric == [kind |-> "eurocentric", lon |-> 0]
Americas == [kind |-> "americas", lon |-> -90]
Pacific == [kind |-> "pacific", lon |-> 180]
Custom(lon) == [kind |-> "custom", lon |-> lon]
BadCenter == [kind |-> "invalid", lon |-> 0]

\* "Get map projection (default to eurocentric)"
projection_of(center) ==
    IF ~IsSome(center) THEN Ok(Eurocentric)
    ELSE IF center[1].kind = "invalid" THEN Err("InvalidParameter")
    ELSE Ok(center[1])

\* MapProjection::center_longitude
center_longitude(projection) == projection.lon

\* geoutil::parse_bbox: a bounding box is <<min_lon, min_lat, max_lon, max_lat>>
parse_bbox(bbox) ==
    IF Len(bbox) # 4 THEN Err("InvalidParameter")
    ELSE IF \E i \in 1..4 : ~IsSome(part_f64(bbox[i])) THEN Err("InvalidParameter")
    ELSE IF bbox[2].n > bbox[4].n THEN Err("InvalidParameter")
    ELSE IF bbox[2].n < -90 \/ bbox[2].n > 90 \/ bbox[4].n < -90 \/ bbox[4].n > 90
         THEN Err("InvalidParameter")
    ELSE Ok(<<bbox[1].n, bbox[2].n, bbox[3].n, bbox[4].n>>)

\* fold(f64::INFINITY, min) and fold(f64::NEG_INFINITY, max) of a non-empty Vec
MinOf(v) == CHOOSE x \in Range(v) : \A y \in Range(v) : x <= y
MaxOf(v) == CHOOSE x \in Range(v) : \A y \in Range(v) : y <= x

\* AppState::get_lat_lon_bounds
get_lat_lon_bounds(st) ==
    AndThen(lon_coords_of(st), LAMBDA lonc :
    AndThen(lat_coords_of(st), LAMBDA latc :
        IF Len(lonc) = 0 \/ Len(latc) = 0 THEN Err("DataNotFound")
        ELSE Ok(<<MinOf(lonc), MinOf(latc), MaxOf(lonc), MaxOf(latc)>>)))

\* geoutil::handle_dateline_crossing_bbox: the adjusted box and the flag
handle_dateline_crossing_bbox(b, projection) ==
    IF b[1] <= b[3] THEN [bbox |-> b, crosses |-> FALSE]
    ELSE IF projection.kind = "pacific" THEN [bbox |-> b, crosses |-> TRUE]
    ELSE IF normalize_degrees(b[1] - center_longitude(projection))
            <= normalize_degrees(b[3] - center_longitude(projection))
         THEN [bbox |-> <<normalize_degrees(b[1] - center_longitude(projection))
                            + center_longitude(projection),
                          b[2],
                          normalize_degrees(b[3] - center_longitude(projection))
                            + center_longitude(projection),
                          b[4]>>,
               crosses |-> FALSE]
    ELSE [bbox |-> b, crosses |-> TRUE]

\* iter().position / iter().rposition with unwrap_or: 0-based
position_or(v, Test(_), default) ==
    UnwrapOr(OptThen(FirstIndex(v, Test), LAMBDA i : Some(i - 1)), default)
rposition_or(v, Test(_), default) ==
    UnwrapOr(OptThen(LastIndex(v, Test), LAMBDA i : Some(i - 1)), default)

\* the column of the slab that appended column col copies
\* (adjust_for_dateline_crossing, "Calculate original column index safely")
dateline_orig_col(width, validated_right_size, col) ==
    IF width > validated_right_size
    THEN width - validated_right_size + Min2(col, validated_right_size - 1)
    ELSE width - 1

\* the coordinate that appended longitude i wraps
dateline_orig_idx(len, validated_right_size, i) ==
    IF len > validated_right_size THEN len - validated_right_size + i ELSE len - 1

\* the position of the seam in the longitude coordinates
dateline_idx_of(lon_coords) ==
    IF lon_coords[1] <= lon_coords[Len(lon_coords)]
    THEN position_or(lon_coords, LAMBDA lon : 0 <= lon /\ lon <= 180, 0)
    ELSE position_or(lon_coords, LAMBDA lon : -180 <= lon /\ lon <= 0, 0)

\* the slab and the coordinates with validated_right_size columns appended
dateline_widened(data, lon_coords, validated_right_size) ==
    LET height == data.shape[1]
        width  == data.shape[2]
        new_width == width + validated_right_size
        Cell(row, col) ==
            IF col < width THEN At(data, <<row, col>>)
            ELSE IF validated_right_size > 0 /\ width >= validated_right_size
                    /\ dateline_orig_col(width, validated_right_size, col - width) < width
                    /\ col < new_width
                 THEN At(data, <<row, dateline_orig_col(width, validated_right_size,
                                                       col - width)>>)
            ELSE 0
    IN  [data |-> [shape |-> <<height, new_width>>,
                   data  |-> [p \in 1..(height * new_width) |->
                                 Cell((p - 1) \div new_width, (p - 1) % new_width)]],
         lon_coords |->
             lon_coords \o
             [i \in 1..validated_right_size |->
                 lon_coords[1 + dateline_orig_idx(Len(lon_coords), validated_right_size,
                                                  i - 1)] + 360]]

\* geoutil::adjust_for_dateline_crossing
adjust_for_dateline_crossing(data, lon_coords, crosses_dateline) ==
    IF ~crosses_dateline \/ Len(lon_coords) = 0
    THEN Ok([data |-> data, lon_coords |-> lon_coords])
    ELSE IF ArrLen(data) = 0 THEN Ok([data |-> data, lon_coords |-> lon_coords])
    ELSE Ok(dateline_widened(data, lon_coords,
                Min2(IF dateline_idx_of(lon_coords) >= Len(lon_coords) THEN 0
                     ELSE Len(lon_coords) - dateline_idx_of(lon_coords),
                     data.shape[2])))

\* "Determine time index based on priority" of generate_image_response
image_time_index(st, q) ==
    IF IsSome(q.uu_time_index) THEN Ok(q.uu_time_index[1])
    ELSE IF IsSome(q.time)
    THEN Match(find_coordinate_index_exact(st, Nm("time"), q.time[1]),
               LAMBDA idx : Ok(idx),
               LAMBDA e : IF e = "PhysicalValueNotFound" THEN Err(e)
                          ELSE find_coordinate_index(st, Nm("time"), q.time[1]))
    ELSE Ok(UnwrapOr(q.time_index, 0))

\* colormaps::get_colormap accepts these names
ColormapNames ==
    {"viridis", "plasma", "inferno", "magma", "cividis", "coolwarm", "rdbu", "seismic"}

\* the coordinates that get_data_slice_with_dims and the image handler
\* read: "lon" when the coordinate map has that key, else "longitude"
slice_coords(st, short, long) ==
    IF short \in DOMAIN st.metadata.coordinates
    THEN get_coordinate_checked(st, short)
    ELSE get_coordinate_checked(st, long)

\* ArrayBase::index_axis_move(Axis(ax0), index): as index_axis; panics also
\* when the array has no axis ax0
index_axis_move(a, ax0, index) ==
    IF ax0 >= Len(a.shape) THEN Err("Panic") ELSE index_axis(a, ax0, index)

\* the loop of get_data_slice_with_dims that removes the axes other than
\* latitude and longitude; dims is the list of <<axis, name>> in descending
\* axis order, k the number of axes removed so far
RECURSIVE remove_other_dims(_, _, _, _, _, _)
remove_other_dims(arr, dims, k, lat, lon, dim_indices) ==
    IF k >= Len(dims) THEN Ok([arr |-> arr, lat |-> lat, lon |-> lon])
    ELSE AndThen(index_axis_move(arr,
                                 IF dims[k + 1][1] >= k THEN dims[k + 1][1] - k ELSE 0,
                                 IF dims[k + 1][2] \in DOMAIN dim_indices
                                 THEN dim_indices[dims[k + 1][2]] ELSE 0),
                 LAMBDA r : remove_other_dims(r, dims, k + 1,
                                IF lat > dims[k + 1][1] THEN lat - 1 ELSE lat,
                                IF lon > dims[k + 1][1] THEN lon - 1 ELSE lon, dim_indices))

\* the axes other than lat_dim_idx and lon_dim_idx, highest axis first
RECURSIVE other_dims_desc(_, _, _, _)
other_dims_desc(dimensions, i, lat, lon) ==
    IF i < 0 THEN <<>>
    ELSE IF i = lat \/ i = lon THEN other_dims_desc(dimensions, i - 1, lat, lon)
    ELSE <<<<i, dimensions[i + 1]>>>> \o other_dims_desc(dimensions, i - 1, lat, lon)

\* s![r0, r1] on a two-dimensional array
slice_2d(a, s0, e0, s1, e1) ==
    AndThen(slice_axis(a, 0, s0, e0), LAMBDA r : slice_axis(r, 1, s1, e1))

\* Array::from_elem((max_lat_idx - min_lat_idx + 1, 1), 0.0), the placeholder
\* of the dateline case.  The usize subtraction overflows when the rows are
\* reversed: a build with overflow checks panics; a build without them wraps,
\* to no rows at all when the window is reversed by one, and to a number of
\* rows that cannot be allocated when it is reversed by more.
dateline_placeholder(min_lat_idx, max_lat_idx, overflow_checks) ==
    IF max_lat_idx >= min_lat_idx
    THEN Ok([shape |-> <<max_lat_idx - min_lat_idx + 1, 1>>,
             data  |-> [i \in 1..(max_lat_idx - min_lat_idx + 1) |-> 0]])
    ELSE IF overflow_checks \/ max_lat_idx + 1 < min_lat_idx THEN Err("Panic")
    ELSE Ok([shape |-> <<0, 1>>, data |-> <<>>])

\* the end of get_data_slice_with_dims, once the index window is known: the
\* placeholder of the dateline case, else the two-dimensional slice
slice_window(var_data, dimensions, lat_dim_idx, lon_dim_idx, b, dim_indices, min_lon_idx, max_lon_idx, min_lat_idx, max_lat_idx, overflow_checks) ==
    IF b[1] > b[3]
    THEN dateline_placeholder(min_lat_idx, max_lat_idx, overflow_checks)
    ELSE AndThen(remove_other_dims(var_data,
                     other_dims_desc(dimensions, Len(dimensions) - 1, lat_dim_idx, lon_dim_idx),
                     0, lat_dim_idx, lon_dim_idx, dim_indices),
                 LAMBDA r :
                     IF Len(r.arr.shape) # 2 THEN Err("DataNotFound")
                     ELSE IF r.lat < r.lon
                          THEN slice_2d(r.arr, min_lat_idx, max_lat_idx, min_lon_idx, max_lon_idx)
                     ELSE IF r.lon < r.lat
                          THEN slice_2d(r.arr, min_lon_idx, max_lon_idx, min_lat_idx, max_lat_idx)
                     ELSE Err("DataNotFound"))

\* AppState::get_data_slice_with_dims; b is <<min_lon, min_lat, max_lon, max_lat>>
get_data_slice_with_dims(st, var_name, b, dim_indices, overflow_checks) ==
    AndThen(get_variable_checked(st, var_name), LAMBDA var_data :
    AndThen(get_variable_metadata_checked(st, var_name), LAMBDA var_meta :
    AndThen(OkOr(LastIndex(var_meta.dimensions, LAMBDA d : d \in {Nm("lat"), Nm("latitude")}),
                 "DataNotFound"), LAMBDA lat1 :
    AndThen(OkOr(LastIndex(var_meta.dimensions, LAMBDA d : d \in {Nm("lon"), Nm("longitude")}),
                 "DataNotFound"), LAMBDA lon1 :
    AndThen(slice_coords(st, Nm("lon"), Nm("longitude")), LAMBDA lon_coords :
    AndThen(slice_coords(st, Nm("lat"), Nm("latitude")), LAMBDA lat_coords :
        IF Len(lon_coords) = 0 \/ Len(lat_coords) = 0
        THEN Ok([shape |-> <<0, 0>>, data |-> <<>>])
        ELSE slice_window(var_data, var_meta.dimensions, lat1 - 1, lon1 - 1, b, dim_indices,
                 IF b[1] <= b[3] THEN position_or(lon_coords, LAMBDA x : x >= b[1], 0) ELSE 0,
                 IF b[1] <= b[3]
                 THEN rposition_or(lon_coords, LAMBDA x : x <= b[3], Len(lon_coords) - 1)
                 ELSE 0,
                 position_or(lat_coords, LAMBDA x : x >= b[2], 0),
                 rposition_or(lat_coords, LAMBDA x : x <= b[4], Len(lat_coords) - 1),
                 overflow_checks)))))))

\* AppState::get_data_slice
get_data_slice(st, var_name, time_index, b, overflow_checks) ==
    AndThen(get_variable_metadata_checked(st, var_name), LAMBDA var_meta :
        get_data_slice_with_dims(st, var_name, b,
            IF Nm("time") \in Range(var_meta.dimensions)
            THEN [d \in {Nm("time")} |-> time_index] ELSE EmptyMap,
            overflow_checks))

\* what generate_image_response has settled before it reads the data
image_selection(q, time_index, adjusted) ==
    [time_index |-> time_index, bbox |-> adjusted.bbox, crosses |-> adjusted.crosses,
     colormap |-> UnwrapOr(q.colormap, "viridis"), format |-> UnwrapOr(q.format, "png")]

\* generate_image_response up to the data slice: what the request asks of
\* the dataset
image_select(st, q) ==
    IF ~has_variable(st, q.var) THEN Err("InvalidVariables")
    ELSE
    AndThen(get_variable_metadata_checked(st, q.var), LAMBDA var_meta :
        IF ~(\E i \in DOMAIN var_meta.dimensions :
                var_meta.dimensions[i] \in {Nm("lat"), Nm("latitude")})
           \/ ~(\E i \in DOMAIN var_meta.dimensions :
                var_meta.dimensions[i] \in {Nm("lon"), Nm("longitude")})
        THEN Err("VariableNotSuitableForImage")
        ELSE
    AndThen(image_time_index(st, q), LAMBDA tm :
        IF tm >= time_dim_size(st) THEN Err("IndexOutOfBounds")
        ELSE
    AndThen(projection_of(q.center), LAMBDA projection :
    AndThen(IF IsSome(q.bbox) THEN parse_bbox(q.bbox[1]) ELSE get_lat_lon_bounds(st),
            LAMBDA box :
        IF ~UnwrapOr(q.wrap_longitude, FALSE) /\ box[1] > box[3] THEN Err("InvalidParameter")
        ELSE IF UnwrapOr(q.colormap, "viridis") \notin ColormapNames
             THEN Err("InvalidParameter")
        ELSE IF UnwrapOr(q.format, "png") \notin {"png", "jpeg"} THEN Err("InvalidParameter")
        ELSE
    AndThen(slice_coords(st, Nm("lon"), Nm("longitude")), LAMBDA lon_coords :
    AndThen(slice_coords(st, Nm("lat"), Nm("latitude")), LAMBDA lat_coords :
        Ok(image_selection(q, tm,
               IF UnwrapOr(q.wrap_longitude, FALSE)
               THEN handle_dateline_crossing_bbox(box, projection)
               ELSE [bbox |-> box, crosses |-> FALSE]))))))))

\* x / y for a finite y that is not zero
RDiv(x, y) == Rat(x[1] * y[2], x[2] * y[1])
\* f64::is_finite
RFinite(x) == x[2] # 0

\* `as f32` of an f64 value.  The finite f32 values of the model are the
\* whole numbers: the value is rounded to the nearest of them, ties to even.
f64_as_f32(v) ==
    IF v = RNaN THEN NaN
    ELSE IF v = <<1, 0>> THEN PosInf
    ELSE IF v = <<-1, 0>> THEN NegInf
    ELSE LET low == RFloor(v)
             twice == RSub(RMul(RInt(2), v), RInt(2 * low))
         IN  IF RLt(twice, RInt(1)) THEN low
             ELSE IF RLt(RInt(1), twice) THEN low + 1
             ELSE IF low % 2 = 0 THEN low ELSE low + 1

\* the value that resample_data stores at column x of row y.  With a single
\* target column or row the source position is 0.0 / 0.0, and the weight
\* computed from it makes the value NaN.
resample_value(data, target_width, target_height, x, y) ==
    IF target_width = 1 \/ target_height = 1 THEN NaN
    ELSE LET src_x == Rat(x * (data.shape[2] - 1), target_width - 1)
             src_y == Rat(y * (data.shape[1] - 1), target_height - 1)
             x0 == RFloor(src_x)
             y0 == RFloor(src_y)
             x1 == Min2(x0 + 1, data.shape[2] - 1)
             y1 == Min2(y0 + 1, data.shape[1] - 1)
             wx == RSub(src_x, RInt(x0))
             wy == RSub(src_y, RInt(y0))
             top    == RAdd(RMul(f32_as_f64(At(data, <<y0, x0>>)), RSub(RInt(1), wx)),
                            RMul(f32_as_f64(At(data, <<y0, x1>>)), wx))
             bottom == RAdd(RMul(f32_as_f64(At(data, <<y1, x0>>)), RSub(RInt(1), wx)),
                            RMul(f32_as_f64(At(data, <<y1, x1>>)), wx))
         IN  f64_as_f32(RAdd(RMul(top, RSub(RInt(1), wy)), RMul(bottom, wy)))

\* geoutil::resample_data: nothing is computed for a target without rows or
\* columns; a source without rows or columns is indexed out of its bounds
resample_data(data, target_width, target_height) ==
    IF target_width = 0 \/ target_height = 0
    THEN Ok([shape |-> <<target_height, target_width>>, data |-> <<>>])
    ELSE IF data.shape[1] = 0 \/ data.shape[2] = 0 THEN Err("Panic")
    ELSE Ok([shape |-> <<target_height, target_width>>,
             data  |-> [p \in 1..(target_height * target_width) |->
                           resample_value(data, target_width, target_height,
                                          (p - 1) % target_width, (p - 1) \div target_width)]])

\* "Resample data if needed": the slab that generate_image is called on
resample_if_needed(data, width, height, resampling) ==
    IF resampling # "none"
       /\ (data.shape[2] > 2 * width \/ data.shape[1] > 2 * height)
    THEN resample_data(data, Min2((4 * width) \div 5, data.shape[2]),
                       Min2((4 * height) \div 5, data.shape[1]))
    ELSE Ok(data)

\* the finite values of a slab
finite_values(data) ==
    {f32_as_f64(data.data[i]) : i \in {j \in DOMAIN data.data : RFinite(f32_as_f64(data.data[j]))}}
\* min_val and max_val of generate_image
min_val_of(data) ==
    IF finite_values(data) = {} THEN <<1, 0>>
    ELSE CHOOSE m \in finite_values(data) : \A v \in finite_values(data) : RLe(m, v)
max_val_of(data) ==
    IF finite_values(data) = {} THEN <<-1, 0>>
    ELSE CHOOSE m \in finite_values(data) : \A v \in finite_values(data) : RLe(v, m)

\* the kernel that generate_image interpolates with
image_kernel(resampling, data_width, data_height, width, height) ==
    IF resampling \in InterpolatorNames THEN resampling
    ELSE IF resampling = "auto" /\ (width > 2 * data_width \/ height > 2 * data_height)
         THEN "bicubic"
    ELSE "bilinear"

\* a pixel: its alpha and, when it is not transparent, the position of its
\* colour on the colormap
Transparent == [alpha |-> 0, level |-> RNaN]
\* Colormap::map
colormap_map(value, min, max) ==
    [alpha |-> 255,
     level |-> IF RLt(min, max)
               THEN RMax(RInt(0), RMin(RInt(1), RDiv(RSub(value, min), RSub(max, min))))
               ELSE Rat(1, 2)]

\* the colour of a pixel from the outcome of the interpolation
pixel_of(r, min, max) ==
    IF r.ok /\ RFinite(r.val) THEN colormap_map(r.val, min, max) ELSE Transparent

\* the body of the loops of generate_image for pixel (x, y), width and
\* height being at least 2.  (data_width - 1) and (data_height - 1) have
\* wrapped when this is evaluated for a slab without columns or rows: the
\* index is then out of the bounds that every kernel checks.
image_pixel(data, width, height, kernel, min_val, max_val, x, y) ==
    IF data.shape[1] = 0 \/ data.shape[2] = 0 THEN Transparent
    ELSE pixel_of(interpolate_with(kernel, data.data, data.shape,
                                   <<Rat(y * (data.shape[1] - 1), height - 1),
                                     Rat(x * (data.shape[2] - 1), width - 1)>>),
                  min_val, max_val)

\* handlers/image.rs generate_image: the pixels, row by row.  The usize
\* subtractions of the loop body overflow for a slab without rows or columns.
generate_image(data, width, height, resampling, overflow_checks) ==
    IF width = 0 \/ height = 0 THEN Ok(<<>>)
    ELSE IF (data.shape[1] = 0 \/ data.shape[2] = 0) /\ overflow_checks THEN Err("Panic")
    ELSE LET min_val == min_val_of(data)
             max_val == max_val_of(data)
             kernel  == image_kernel(resampling, data.shape[2], data.shape[1], width, height)
         IN  Ok([p \in 1..(width * height) |->
                    image_pixel(data, width, height, kernel, min_val, max_val,
                                (p - 1) % width, (p - 1) \div width)])

\* "Get resampling method (default to auto)"
resampling_of(q) ==
    IF IsSome(q.resampling) THEN q.resampling[1] ELSE UnwrapOr(q.interpolation, "auto")

\* "Handle dateline crossing by duplicating data if needed"
dateline_adjusted(data, lon_coords, crosses_dateline) ==
    IF crosses_dateline /\ ArrLen(data) # 0
    THEN Match(adjust_for_dateline_crossing(data, lon_coords, crosses_dateline),
               LAMBDA adjusted : adjusted.data,
               LAMBDA e : data)
    ELSE data

\* the rest of generate_image_response: the slab that is rendered
image_slab(st, q, sel, overflow_checks) ==
    AndThen(slice_coords(st, Nm("lon"), Nm("longitude")), LAMBDA lon_coords :
    AndThen(get_data_slice(st, q.var, sel.time_index, sel.bbox, overflow_checks), LAMBDA data :
        resample_if_needed(dateline_adjusted(data, lon_coords, sel.crosses),
                           UnwrapOr(q.width, 800), UnwrapOr(q.height, 600),
                           resampling_of(q))))

\* image_handler: the image that is sent for the slab, or the error
image_response(q, sel, r, overflow_checks) ==
    Match(AndThen(r, LAMBDA slab :
              AndThen(generate_image(slab, UnwrapOr(q.width, 800), UnwrapOr(q.height, 600),
                                     resampling_of(q), overflow_checks),
                      LAMBDA pixels :
                          Ok([kind |-> "image", format |-> sel.format,
                              colormap |-> sel.colormap, crosses |-> sel.crosses,
                              width  |-> UnwrapOr(q.width, 800),
                              height |-> UnwrapOr(q.height, 600),
                              slab   |-> slab, pixels |-> pixels]))),
          LAMBDA body : Response(200, body),
          LAMBDA e : IF e = "Panic" THEN Dropped ELSE Response(400, ErrorBody(e)))

\* generate_image_response, start to end
generate_image_response(st, q, overflow_checks) ==
    Match(image_select(st, q),
          LAMBDA sel : image_response(q, sel, image_slab(st, q, sel, overflow_checks),
                                      overflow_checks),
          LAMBDA e : Response(400, ErrorBody(e)))

(***************************************************************************)
(* Configurations and datasets the server is started with                  *)
(***************************************************************************)
\* the alias configuration of the repository's tests
RepoAliases == Alias2("latitude", "lat", "longitude", "lon")

\* max_data_points of the datasets of the model: one time step of FileStd
Budget == DimLen * (DimLen + 1)

GoodConfig(aliases, maxpts) ==
    MkConfig("127.0.0.1", 8000, "info", "bilinear", maxpts, aliases)

\* configurations that Config::validate or the address parser refuses
BadConfigs ==
    {MkConfig("", 8000, "info", "bilinear", Budget, NoAliases),
     MkConfig("127.0.0.1", 0, "info", "bilinear", Budget, NoAliases),
     MkConfig("127.0.0.1", 8000, "verbose", "bilinear", Budget, NoAliases),
     MkConfig("127.0.0.1", 8000, "info", "cubic", Budget, NoAliases),
     MkConfig("localhost", 8000, "info", "bilinear", Budget, NoAliases)}

\* what the server may be started with: a configuration and a dataset file
StartConfigs == {GoodConfig(NoAliases, Budget), GoodConfig(RepoAliases, Budget)} \cup BadConfigs
StartFiles == {FileStd} \cup BadFiles \cup UncheckedFiles

\* the outcomes of building the AppState of a loaded file
LoadOutcomes(f, config) ==
    {load_netcdf(f, config, first, canon) :
        first \in DOMAIN f.metadata.dimensions,
        canon \in CanonChoices(config.data.dimension_aliases)}

\* alias configurations of the request-level model, per file
AliasConfigs(f) ==
    IF f = FileT THEN {NoAliases, Alias1("time", "t")}
    ELSE IF f = FileXY THEN {NoAliases, Alias2("latitude", "y", "longitude", "x")}
    ELSE IF f = FileStd
         THEN {NoAliases, RepoAliases,
               Alias3("latitude", "lat", "longitude", "lon", "time", "time"),
               Alias2("latitude", "lat", "lat", "lat"),
               Alias2("longitude", "lon", "level", "plev")}
    ELSE {NoAliases, RepoAliases}

\* the states a running server can have: every good file under each of its
\* alias configurations, with the budget at one time step or out of reach
Worlds ==
    UNION {UNION {UNION {{r.val : r \in LoadOutcomes(f, GoodConfig(a, m))} :
                            m \in {Budget, 1000 * Budget}} :
                     a \in AliasConfigs(f)} :
              f \in GoodFiles}

(***************************************************************************)
(* Requests                                                                *)
(***************************************************************************)
\* query keys
K(name) == <<name>>
KRange(name) == <<name, US, "range">>
KIndex(name) == <<US, US, name, US, "index">>
KIndexRange(name) == <<US, US, name, US, "index", US, "range">>

P0 == [k \in {} |-> <<>>]
P1(k, v) == [x \in {k} |-> v]
P2(k1, v1, k2, v2) == [x \in {k1, k2} |-> IF x = k1 THEN v1 ELSE v2]

\* a /data request: DataQuery with its dynamic parameters, and the order in
\* which the parameter map yields them
DataReq(format, variables, params, order) ==
    [format |-> format, vars |-> variables, params |-> params, order |-> order,
     layout |-> None]

\* the parameter maps of the request-level model
IndexParams ==
    UNION {{P1(KeyTimeIndex, Val1(i)), P1(KIndex("time"), Val1(i))} : i \in 0..DimLen}
    \cup {P1(KIndex(c), Val1(1)) : c \in {"lon", "longitude", "lat", "latitude", "t", "x", "level"}}
ValueParams ==
    {P1(K("time"), Val1(510)), P1(K("time"), Val1(505)), P1(K("lat"), Val1(30)),
     P1(K("latitude"), Val1(40)), P1(K("lon"), Val1(150)), P1(K("level"), Val1(0)),
     P1(K("foo"), Val1(1)), P1(KeyTimeIndex, <<Junk>>)}
RangeParams ==
    {P1(KRange("lat"), Val2(30, 40)), P1(KRange("lon"), Val2(140, 150)),
     P1(KRange("lon"), Val2(150, 140)), P1(KRange("lon"), Val2(160, 140)),
     P1(KIndexRange("lon"), Val2(1, 0)), P1(KIndexRange("lon"), Val2(2, 0)),
     P1(KRange("time"), Val1(500)),
     P1(KIndexRange("lat"), Val2(0, 1)), P1(KIndexRange("lon"), Val2(1, 2)),
     P1(KIndexRange("longitude"), Val2(0, 1))}
PairParams ==
    {P2(KeyTimeIndex, Val1(0), KIndex("time"), Val1(1)),
     P2(KIndex("time"), Val1(0), KIndex("lat"), Val1(0)),
     P2(K("time"), Val1(500), KeyTimeIndex, Val1(1)),
     P2(K("lat"), Val1(30), K("lon"), Val1(150)),
     P2(KeyTimeIndex, Val1(0), K("lat"), Val1(40)),
     P2(K("time"), Val1(510), KIndex("time"), Val1(0))}
ParamMaps == {P0} \cup IndexParams \cup ValueParams \cup RangeParams \cup PairParams

\* the variable lists that name only variables of the dataset
ValidVarLists(st) ==
    LET V == DOMAIN st.metadata.variables
    IN  {<<v>> : v \in V} \cup {p \in {<<v, w>> : v \in V, w \in V} : p[1] # p[2]}

\* every order in which the parameter map of a request can yield its keys
WithOrders(R) == UNION {{[r EXCEPT !.order = o] : o \in Perms(DOMAIN r.params)} : r \in R}

\* the /data requests of the request-level model
DataRequests(st) ==
    WithOrders({DataReq(Some(f), vl, pm, <<>>) :
                   f \in {"arrow", "json"}, vl \in ValidVarLists(st), pm \in ParamMaps})

\* requests with a layout: the dimensions of the requested variable in
\* storage order and in the opposite order
Reverse(q) == [i \in DOMAIN q |-> q[Len(q) + 1 - i]]
LayoutRequests(st) ==
    {[DataReq(Some(f), <<v>>, P0, <<>>) EXCEPT !.layout = Some(L)] :
        f \in {"arrow", "json"},
        v \in DOMAIN st.metadata.variables,
        L \in UNION {{st.metadata.variables[w].dimensions,
                      Reverse(st.metadata.variables[w].dimensions)} :
                         w \in DOMAIN st.metadata.variables}}

\* requests that are refused before any selector is read
RefusedDataRequests ==
    {DataReq(Some("arrow"), <<>>, P0, <<>>), DataReq(Some("json"), <<"zzz">>, P0, <<>>),
     DataReq(Some("csv"), <<"t2m">>, P0, <<>>),
     [DataReq(None, <<"t2m">>, P0, <<>>) EXCEPT !.layout = Some(<<Nm("nodim")>>)],
     [DataReq(None, <<"t2m">>, P0, <<>>) EXCEPT !.layout = Some(<<Nm("latitude"), Nm("lon")>>)]}

\* a /point request: PointQuery
PointReq(lon, lat, time, u_time, uu_time_index, time_index, variables, interpolation) ==
    [lon |-> lon, lat |-> lat, time |-> time,
     u_longitude |-> None, u_latitude |-> None, u_time |-> u_time,
     uu_longitude_index |-> None, uu_latitude_index |-> None,
     uu_time_index |-> uu_time_index, time_index |-> time_index,
     vars |-> variables, interpolation |-> interpolation]

\* the time selectors of the request-level model: physical, raw and legacy
PhysicalTimes == {<<None, None>>, <<Some(500), None>>, <<Some(510), None>>, <<None, Some(510)>>}
PointRequests(st) ==
    {PointReq(Some(140), Some(30), pt[1], pt[2], raw, legacy, <<v>>, None) :
        pt \in PhysicalTimes, raw \in {None, Some(0), Some(1)},
        legacy \in {None, Some(0), Some(1)}, v \in DOMAIN st.metadata.variables}
    \cup {PointReq(Some(145), Some(35), None, None, None, None, <<v>>, Some(m)) :
            v \in DOMAIN st.metadata.variables, m \in InterpolatorNames \cup {"cubic"}}
    \cup {PointReq(None, Some(30), None, None, None, None, <<"t2m">>, None),
          PointReq(Some(999), Some(30), None, None, None, None, <<"t2m">>, None),
          PointReq(Some(140), Some(30), None, None, None, Some(DimLen), <<"t2m">>, None),
          PointReq(Some(140), Some(30), None, None, None, None, <<>>, None),
          [PointReq(None, None, None, None, None, None, <<"t2m">>, None)
              EXCEPT !.uu_longitude_index = Some(1), !.uu_latitude_index = Some(0)]}

\* an /image request: ImageQuery
ImageReq(var, uu_time_index, bbox, width, height) ==
    [var |-> var, time_index |-> None, time |-> None, uu_time_index |-> uu_time_index,
     bbox |-> bbox, width |-> Some(width), height |-> Some(height), colormap |-> None,
     format |-> None, wrap_longitude |-> None, center |-> None, resampling |-> None,
     interpolation |-> None]

\* the requests of the server-level model
SmallDataRequests ==
    {DataReq(Some("json"), <<"t2m">>, P0, <<>>),
     DataReq(None, <<"t2m">>, P1(KeyTimeIndex, Val1(1)), <<KeyTimeIndex>>)}
SmallPointRequests ==
    {PointReq(Some(145), Some(35), Some(510), None, None, None, <<"t2m">>, None)}
SmallImageRequests ==
    {ImageReq("t2m", Some(1), Some(<<Num(140), Num(30), Num(150), Num(40)>>), 3, 2)}

(***************************************************************************)
(* Handlers, start to end: what each endpoint answers from a given state   *)
(***************************************************************************)
\* the format that data_handler dispatches on
output_format(req) == IF IsSome(req.format) THEN req.format[1] ELSE "arrow"

\* the extraction loop of extract_and_format_data / create_json_stream
RECURSIVE extract_all(_, _, _, _, _)
extract_all(st, variables, selected_ranges, i, acc) ==
    IF i > Len(variables) THEN Ok(acc)
    ELSE AndThen(extract_variable_data(st, variables[i], selected_ranges),
                 LAMBDA r : extract_all(st, variables, selected_ranges, i + 1, Append(acc, r)))

\* the body that data_handler sends for the extracted arrays
format_data(st, req, coordinate_arrays, var_data_arrays) ==
    IF output_format(req) = "json" THEN format_json(st, req, var_data_arrays)
    ELSE format_arrow(st, req, coordinate_arrays, var_data_arrays)

\* process_data_query / process_data_query_json
process_data_query(st, req) ==
    AndThen(parse_data_query(st, req), LAMBDA q :
    AndThen(select_ranges(st, q), LAMBDA sel :
    AndThen(check_budget(st, sel.coords), LAMBDA ok :
    AndThen(extract_all(st, req.vars, sel.ranges, 1, <<>>), LAMBDA arrays :
        format_data(st, req, sel.coords, arrays)))))

\* data_handler
data_response(st, req) ==
    IF output_format(req) \notin {"arrow", "json"}
    THEN Response(400, ErrorBody("UnsupportedFormat"))
    ELSE Match(process_data_query(st, req),
               LAMBDA body : Response(200, body),
               LAMBDA e : handle_data_error(e))

\* the answer of an endpoint to a request served from st with nothing else
\* running (an /image request whose slab has rows and columns is answered
\* alike with and without overflow checks)
Alone(st, ep, req) ==
    CASE ep = "metadata" -> metadata_response(st)
      [] ep = "point"    -> point_response(process_point_query(st, req))
      [] ep = "data"     -> data_response(st, req)
      [] ep = "image"    -> generate_image_response(st, req, TRUE)

(***************************************************************************)
(* Request slots: a request in flight and how far its handler has got      *)
(***************************************************************************)
NoReq == [none |-> TRUE]
NoTmp == [none |-> TRUE]
Idle == [ep |-> "idle", stage |-> "idle", req |-> NoReq, tmp |-> NoTmp,
         sliced |-> 0, resp |-> None]
Arrived(ep, req) == [Idle EXCEPT !.ep = ep, !.stage = "arrived", !.req = req]
Finish(slot, response) == [slot EXCEPT !.stage = "done", !.resp = Some(response)]

\* the locals of the /data handler
DataTmp(selectors, ranges, coords, arrays) ==
    [selectors |-> selectors, ranges |-> ranges, coords |-> coords, arrays |-> arrays]

At1(s, ep, stage) == slots[s].ep = ep /\ slots[s].stage = stage

\* extract_variable_data works on a copy (`var_data.to_owned()`); an
\* extraction that sliced the shared array in place would leave this state
\* behind
shared_after_inplace_extract(st, var_name, extracted) ==
    [st EXCEPT !.data[var_name] = extracted]
\* the shared state after extract_variable_data
shared_after_extract(st, var_name, extracted) == st

(***************************************************************************)
(* Startup (main.rs)                                                       *)
(***************************************************************************)
NoApp == [loaded |-> FALSE]
NoCall == [fn |-> "none"]
NoRet == Err("Pending")
StartupSteps == <<"setup_logging", "load_config", "validate_config", "load_netcdf",
                  "validate_state", "parse_host", "bind", "serve">>

Rest == UNCHANGED <<cfg, file, call, ret>>

\* setup_logging()?
SetupLogging ==
    /\ pc = "start"
    /\ \E ok \in BOOLEAN :
          IF ok THEN pc' = "logging" /\ steps' = Append(steps, "setup_logging")
          ELSE pc' = "aborted" /\ steps' = steps
    /\ UNCHANGED <<app, slots>> /\ Rest

\* Config::load()?: the sources may be unreadable
LoadConfig ==
    /\ pc = "logging"
    /\ \E ok \in BOOLEAN :
          IF ok THEN pc' = "config_loaded" /\ steps' = Append(steps, "load_config")
          ELSE pc' = "aborted" /\ steps' = steps
    /\ UNCHANGED <<app, slots>> /\ Rest

\* config.validate()?
ValidateConfig ==
    /\ pc = "config_loaded"
    /\ IF Config_validate(cfg).ok
       THEN pc' = "config_valid" /\ steps' = Append(steps, "validate_config")
       ELSE pc' = "aborted" /\ steps' = steps
    /\ UNCHANGED <<app, slots>> /\ Rest

\* load_netcdf(&file_path, ...)?
LoadNetcdf ==
    /\ pc = "config_valid"
    /\ \E r \in LoadOutcomes(file, cfg) :
          IF r.ok
          THEN pc' = "loaded" /\ app' = r.val /\ steps' = Append(steps, "load_netcdf")
          ELSE pc' = "aborted" /\ app' = app /\ steps' = steps
    /\ UNCHANGED slots /\ Rest

\* app_state.validate()?
ValidateState ==
    /\ pc = "loaded"
    /\ IF AppState_validate(app).ok
       THEN pc' = "validated" /\ steps' = Append(steps, "validate_state")
       ELSE pc' = "aborted" /\ steps' = steps
    /\ UNCHANGED <<app, slots>> /\ Rest

\* config.server.host.parse::<IpAddr>()?
ParseHost ==
    /\ pc = "validated"
    /\ IF cfg.server.host \in IpHosts
       THEN pc' = "host_parsed" /\ steps' = Append(steps, "parse_host")
       ELSE pc' = "aborted" /\ steps' = steps
    /\ UNCHANGED <<app, slots>> /\ Rest

\* TcpListener::bind(addr)?: the address may be in use
BindListener ==
    /\ pc = "host_parsed"
    /\ \E ok \in BOOLEAN :
          IF ok THEN pc' = "bound" /\ steps' = Append(steps, "bind")
          ELSE pc' = "aborted" /\ steps' = steps
    /\ UNCHANGED <<app, slots>> /\ Rest

\* axum::serve(listener, app)
Serve ==
    /\ pc = "bound"
    /\ pc' = "serving"
    /\ steps' = Append(steps, "serve")
    /\ UNCHANGED <<app, slots>> /\ Rest

\* shutdown_signal() completes: no connection is accepted any more, the
\* requests in flight are finished
Shutdown ==
    /\ pc = "serving"
    /\ pc' = "stopping"
    /\ UNCHANGED <<app, slots, steps>> /\ Rest

\* the graceful shutdown is over
Exit ==
    /\ pc = "stopping"
    /\ \A s \in 1..NumSlots : slots[s].ep = "idle"
    /\ pc' = "stopped"
    /\ UNCHANGED <<app, slots, steps>> /\ Rest

(***************************************************************************)
(* Requests in flight                                                      *)
(***************************************************************************)
Running == pc \in {"serving", "stopping"}
Keep == UNCHANGED <<pc, steps>> /\ Rest
SetSlot(s, v) == slots' = [slots EXCEPT ![s] = v]

\* a connection is accepted and routed
Arrive(s, ep, Menu) ==
    /\ pc = "serving"
    /\ slots[s].ep = "idle"
    /\ \E req \in Menu : SetSlot(s, Arrived(ep, req))
    /\ UNCHANGED app /\ Keep

\* the response has been sent
Complete(s) ==
    /\ Running
    /\ slots[s].stage = "done"
    /\ SetSlot(s, Idle)
    /\ UNCHANGED app /\ Keep

\* metadata_handler
MetadataRespond(s) ==
    /\ Running /\ At1(s, "metadata", "arrived")
    /\ SetSlot(s, Finish(slots[s], metadata_response(app)))
    /\ UNCHANGED app /\ Keep

\* process_point_query: the selectors
PointSelect(s) ==
    /\ Running /\ At1(s, "point", "arrived")
    /\ LET r == point_select(app, slots[s].req)
       IN  IF r.ok THEN SetSlot(s, [slots[s] EXCEPT !.stage = "selected", !.tmp = r.val])
           ELSE SetSlot(s, Finish(slots[s], point_response(r)))
    /\ UNCHANGED app /\ Keep

\* process_point_query: the variable loop
PointInterpolate(s) ==
    /\ Running /\ At1(s, "point", "selected")
    /\ SetSlot(s, Finish(slots[s],
                  point_response(point_values(app, slots[s].tmp, slots[s].req.vars, 1, EmptyMap))))
    /\ UNCHANGED app /\ Keep

\* generate_image_response: validation of the request
ImageSelect(s) ==
    /\ Running /\ At1(s, "image", "arrived")
    /\ LET r == image_select(app, slots[s].req)
       IN  IF r.ok THEN SetSlot(s, [slots[s] EXCEPT !.stage = "selected", !.tmp = r.val])
           ELSE SetSlot(s, Finish(slots[s], Response(400, ErrorBody(r.err))))
    /\ UNCHANGED app /\ Keep

\* generate_image_response: the slab and the image
ImageRender(s) ==
    /\ Running /\ At1(s, "image", "selected")
    /\ \E overflow_checks \in BOOLEAN :
          SetSlot(s, Finish([slots[s] EXCEPT !.sliced = 1],
                     image_response(slots[s].req, slots[s].tmp,
                                    image_slab(app, slots[s].req, slots[s].tmp,
                                               overflow_checks),
                                    overflow_checks)))
    /\ UNCHANGED app /\ Keep

\* data_handler, process_data_query: the format and the parsed query
DataParse(s) ==
    /\ Running /\ At1(s, "data", "arrived")
    /\ LET req == slots[s].req
           r == parse_data_query(app, req)
       IN  IF output_format(req) \notin {"arrow", "json"}
           THEN SetSlot(s, Finish(slots[s], Response(400, ErrorBody("UnsupportedFormat"))))
           ELSE IF r.ok
           THEN SetSlot(s, [slots[s] EXCEPT !.stage = "parsed",
                                            !.tmp = DataTmp(r.val, EmptyMap, EmptyMap, <<>>)])
           ELSE SetSlot(s, Finish(slots[s], handle_data_error(r.err)))
    /\ UNCHANGED app /\ Keep

\* the selector loop and the fill loop
DataRanges(s) ==
    /\ Running /\ At1(s, "data", "parsed")
    /\ LET r == select_ranges(app, slots[s].tmp.selectors)
       IN  IF r.ok
           THEN SetSlot(s, [slots[s] EXCEPT !.stage = "ranged",
                                            !.tmp.ranges = r.val.ranges,
                                            !.tmp.coords = r.val.coords])
           ELSE SetSlot(s, Finish(slots[s], handle_data_error(r.err)))
    /\ UNCHANGED app /\ Keep

\* the budget check
DataBudget(s) ==
    /\ Running /\ At1(s, "data", "ranged")
    /\ LET r == check_budget(app, slots[s].tmp.coords)
       IN  IF r.ok THEN SetSlot(s, [slots[s] EXCEPT !.stage = "budgeted"])
           ELSE SetSlot(s, Finish(slots[s], handle_data_error(r.err)))
    /\ UNCHANGED app /\ Keep

\* one iteration of the extraction loop
DataExtract(s) ==
    /\ Running /\ At1(s, "data", "budgeted")
    /\ Len(slots[s].tmp.arrays) < Len(slots[s].req.vars)
    /\ LET var_name == slots[s].req.vars[Len(slots[s].tmp.arrays) + 1]
           r == extract_variable_data(app, var_name, slots[s].tmp.ranges)
       IN  IF r.ok
           THEN /\ SetSlot(s, [slots[s] EXCEPT !.tmp.arrays = Append(@, r.val),
                                               !.sliced = @ + 1])
                /\ app' = shared_after_extract(app, var_name, r.val)
           ELSE /\ SetSlot(s, Finish(slots[s], handle_data_error(r.err)))
                /\ app' = app
    /\ Keep

\* the table or the JSON document of the extracted arrays
DataEmit(s) ==
    /\ Running /\ At1(s, "data", "budgeted")
    /\ Len(slots[s].tmp.arrays) = Len(slots[s].req.vars)
    /\ LET body == format_data(app, slots[s].req, slots[s].tmp.coords, slots[s].tmp.arrays)
       IN  IF body.ok THEN SetSlot(s, Finish(slots[s], Response(200, body.val)))
           ELSE SetSlot(s, Finish(slots[s], handle_data_error(body.err)))
    /\ UNCHANGED app /\ Keep

(***************************************************************************)
(* The server: startup, then NumSlots requests in flight                   *)
(***************************************************************************)
Init ==
    /\ pc = "start"
    /\ cfg \in StartConfigs
    /\ file \in StartFiles
    /\ app = NoApp
    /\ steps = <<>>
    /\ slots = [s \in 1..NumSlots |-> Idle]
    /\ call = NoCall
    /\ ret = NoRet

ArriveMetadata(s) == Arrive(s, "metadata", {NoReq})
ArrivePoint(s) == Arrive(s, "point", SmallPointRequests)
ArriveData(s) == Arrive(s, "data", SmallDataRequests)
ArriveImage(s) == Arrive(s, "image", SmallImageRequests)

Handle(s) ==
    \/ MetadataRespond(s)
    \/ PointSelect(s)
    \/ PointInterpolate(s)
    \/ ImageSelect(s)
    \/ ImageRender(s)
    \/ DataParse(s)
    \/ DataRanges(s)
    \/ DataBudget(s)
    \/ DataExtract(s)
    \/ DataEmit(s)
    \/ Complete(s)

Next ==
    \/ SetupLogging
    \/ LoadConfig
    \/ ValidateConfig
    \/ LoadNetcdf
    \/ ValidateState
    \/ ParseHost
    \/ BindListener
    \/ Serve
    \/ Shutdown
    \/ Exit
    \/ \E s \in 1..NumSlots : ArriveMetadata(s)
    \/ \E s \in 1..NumSlots : ArrivePoint(s)
    \/ \E s \in 1..NumSlots : ArriveData(s)
    \/ \E s \in 1..NumSlots : ArriveImage(s)
    \/ \E s \in 1..NumSlots : Handle(s)

Spec == Init /\ [][Next]_vars

(***************************************************************************)
(* One request at a time against every dataset and alias configuration     *)
(***************************************************************************)
InitReq ==
    /\ pc = "serving"
    /\ app \in Worlds
    /\ cfg = app.config
    /\ file = [exists |-> TRUE, opens |-> TRUE, metadata |-> app.metadata, data |-> app.data]
    /\ steps = StartupSteps
    /\ slots = [s \in 1..NumSlots |-> Idle]
    /\ call = NoCall
    /\ ret = NoRet

ArriveDataReq ==
    Arrive(1, "data", DataRequests(app) \cup RefusedDataRequests \cup LayoutRequests(app))
ArrivePointReq == Arrive(1, "point", PointRequests(app))

NextReq ==
    \/ ArriveDataReq
    \/ ArrivePointReq
    \/ DataParse(1)
    \/ DataRanges(1)
    \/ DataBudget(1)
    \/ DataExtract(1)
    \/ DataEmit(1)
    \/ PointSelect(1)
    \/ PointInterpolate(1)
    \/ Complete(1)

SpecReq == InitReq /\ [][NextReq]_vars

(***************************************************************************)
(* One /image request at a time against every dataset and alias            *)
(* configuration                                                           *)
(***************************************************************************)
\* the sizes of the images: that of the grid, sizes within twice the grid,
\* and sizes beyond twice the grid, where `auto` turns to the bicubic kernel
GridWidth == DimLen + 1
GridHeight == DimLen
ImageSizes ==
    {<<GridWidth, GridHeight>>, <<2 * GridWidth - 1, 2 * GridHeight - 1>>,
     <<2 * GridWidth + 1, 2 * GridHeight + 1>>}
\* an image far larger than the grid: 100 x 80
LargeSize == <<100, 80>>

\* the boxes of the requests: the grid and a part of it, boxes between two
\* neighbouring grid points in longitude, in latitude and in both, boxes
\* beside the grid, and a box that is not one
Box(min_lon, min_lat, max_lon, max_lat) ==
    Some(<<Num(min_lon), Num(min_lat), Num(max_lon), Num(max_lat)>>)
GridBoxes ==
    {None, Box(140, 30, 150, 40), Box(150, 30, 160, 30), Box(139, 29, 161, 51)}
GapBoxes == {Box(141, 30, 149, 40), Box(140, 31, 150, 39), Box(141, 31, 149, 39)}
OutsideBoxes == {Box(200, 30, 210, 40), Box(100, 30, 110, 40), Box(140, 60, 150, 70)}
\* min_lon above max_lon: across the seam when wrap_longitude is set
SeamBoxes ==
    {Box(150, 30, 140, 40), Box(160, 40, 140, 40), Box(150, 31, 140, 39),
     Box(170, 30, -170, 40)}
BadBoxes == {Some(<<Num(140), Num(30), Num(150)>>), Box(140, 40, 150, 30)}

\* the /image requests: every variable at every size with every kernel,
\* every box, the seam boxes with and without wrap_longitude under each
\* projection, the ways of naming the time step, and the parameters that
\* are refused
ImageRequests(st) ==
    {[ImageReq(v, None, None, size[1], size[2]) EXCEPT !.resampling = r] :
        v \in DOMAIN st.metadata.variables, size \in ImageSizes,
        r \in {None, Some("auto"), Some("nearest"), Some("bilinear"), Some("bicubic"),
               Some("none")}}
    \cup {ImageReq(v, None, b, size[1], size[2]) :
            v \in DOMAIN st.metadata.variables,
            b \in GridBoxes \cup GapBoxes \cup OutsideBoxes \cup BadBoxes,
            size \in {<<GridWidth, GridHeight>>}}
    \cup {[ImageReq("t2m", None, b, GridWidth, GridHeight)
                EXCEPT !.wrap_longitude = w, !.center = c] :
            b \in SeamBoxes, w \in {None, Some(FALSE), Some(TRUE)},
            c \in {None, Some(Pacific), Some(Custom(180)), Some(BadCenter)}}
    \cup {[ImageReq("t2m", uu, None, GridWidth, GridHeight)
                EXCEPT !.time_index = legacy, !.time = tm] :
            uu \in {None, Some(1), Some(DimLen)}, legacy \in {None, Some(1)},
            tm \in {None, Some(510), Some(505)}}
    \cup {[ImageReq("t2m", None, None, GridWidth, GridHeight)
                EXCEPT !.colormap = c, !.format = f, !.interpolation = i] :
            c \in {None, Some("plasma"), Some("rainbow")},
            f \in {None, Some("png"), Some("jpeg"), Some("gif")},
            i \in {None, Some("nearest")}}
    \cup {ImageReq("t2m", None, Box(139, 29, 161, 51), LargeSize[1], LargeSize[2]),
          ImageReq("nosuch", None, None, GridWidth, GridHeight)}

ArriveImageReq == Arrive(1, "image", ImageRequests(app))

NextImage ==
    \/ ArriveImageReq
    \/ ImageSelect(1)
    \/ ImageRender(1)
    \/ Complete(1)

SpecImage == InitReq /\ [][NextImage]_vars

(***************************************************************************)
(* Single calls of resolve_dimension and extract_variable_data             *)
(***************************************************************************)
\* dimension names, alias keys and alias targets of the calls of
\* resolve_dimension: a dimension may itself be called `_latitude`, and an
\* alias may point to a name that is no dimension
PureDims == {Nm("lat"), Nm("lon"), <<US, "latitude">>, Nm("latitude")}
PureAliasKeys == {Nm("latitude"), <<US, "latitude">>, Nm("longitude")}
PureAliasTargets == {Nm("lat"), Nm("lon"), Nm("nodim")}
PureAliases == UNION {[keys -> PureAliasTargets] : keys \in SUBSET PureAliasKeys}
PureNames ==
    {Nm("lat"), Nm("latitude"), <<US, "latitude">>, Nm("longitude"), <<US, "longitude">>,
     <<US, US, "latitude">>, Nm("zzz")}

\* a file whose one variable spans the dimensions D
PureFile(D) ==
    MkFile([d \in D |-> 1], OneVar("t2m", CHOOSE p \in Perms(D) : TRUE), VarBase)

\* the states that resolve_dimension is called on
ResolveStates ==
    UNION {{r.val : r \in LoadOutcomes(PureFile(D), GoodConfig(a, Budget))} :
              D \in (SUBSET PureDims) \ {{}}, a \in PureAliases}

\* the states that extract_variable_data is called on
ExtractStates ==
    UNION {{r.val : r \in LoadOutcomes(f, GoodConfig(NoAliases, Budget))} : f \in GoodFiles}

\* the in-bounds maps dimension -> (start, end) with start <= end over the
\* dimensions D
RECURSIVE RangeMapsOver(_, _)
RangeMapsOver(sizes, D) ==
    IF D = {} THEN {EmptyMap}
    ELSE LET d == CHOOSE x \in D : TRUE
         IN  {Put(m, d, p) : m \in RangeMapsOver(sizes, D \ {d}),
                             p \in {q \in (0..(sizes[d] - 1)) \X (0..(sizes[d] - 1)) : q[1] <= q[2]}}

\* the same over any subset of the dataset's dimensions
RangeMaps(st) ==
    UNION {RangeMapsOver(st.metadata.dimensions, D) : D \in SUBSET DOMAIN st.metadata.dimensions}

\* the coordinate arrays that find_coordinate_index is called on: the
\* non-decreasing arrays of up to DimLen + 1 values
CoordValues == 0..(2 * DimLen)
QueryValues == (-1)..(2 * DimLen + 1)
SortedArrays ==
    UNION {{c \in [1..n -> CoordValues] : \A i \in 1..(n - 1) : c[i] <= c[i + 1]} :
              n \in 1..(DimLen + 1)}

\* a file whose latitude axis has the coordinate array c
FindFile(c) ==
    [MkFile(Sizes2("lat", Len(c), "lon", 1), OneVar("t2m", <<Nm("lat"), Nm("lon")>>), VarBase)
        EXCEPT !.metadata.coordinates[Nm("lat")] = c]

\* the states that find_coordinate_index is called on
FindStates ==
    UNION {{r.val : r \in LoadOutcomes(FindFile(c), GoodConfig(RepoAliases, Budget))} :
              c \in SortedArrays}
FindNames == {Nm("lat"), Nm("latitude"), Nm("zzz")}

\* the attributes and raw values that the JSON emitter is called on
AttributeSets ==
    {[k \in K3 |-> IF k = "_FillValue" THEN 5 ELSE IF k = "scale_factor" THEN 2 ELSE 3] :
        K3 \in SUBSET {"_FillValue", "scale_factor", "add_offset"}}
RawValues == {0, 5, 7, MaxFinite, PosInf, NegInf, NaN}
\* a file whose variable has the attributes attrs
AttrFile(attrs) ==
    [MkFile(Sizes2("lat", 1, "lon", 1), OneVar("t2m", <<Nm("lat"), Nm("lon")>>), VarBase)
        EXCEPT !.metadata.variables["t2m"].attributes = attrs]
ElementStates ==
    UNION {{r.val : r \in LoadOutcomes(AttrFile(a), GoodConfig(NoAliases, Budget))} :
              a \in AttributeSets}

\* the grids that the interpolation kernels are called on: a scalar, rows
\* of 2, 4 and 5 points and grids of 2 x 3 and 4 x 4 points
KernelShapes == {<<>>, <<2>>, <<4>>, <<5>>, <<2, 3>>, <<4, 4>>}
\* the values of a grid: 1, 2, 3, ... along a row, rows 10 apart
GridData(shape) == MkArray(shape, 1).data
\* the data of the calls: two grids of finite values, grids with a value
\* that is not finite, and data that is longer or shorter than the grid
KernelData(shape) ==
    {GridData(shape), MkArray(shape, 0).data}
    \cup {[GridData(shape) EXCEPT ![k] = x] :
             k \in {1, 2} \cap DOMAIN GridData(shape), x \in {NaN, PosInf}}
    \cup {Append(GridData(shape), 9), SubSeq(GridData(shape), 1, Len(GridData(shape)) - 1), <<>>}
\* the fractional indices of the calls, per axis
IndexValues ==
    {Rat(-1, 2), RInt(0), Rat(1, 5), Rat(1, 4), Rat(1, 2), Rat(7, 10), Rat(3, 4), RInt(1),
     RInt(2), Rat(27, 10), RInt(3), Rat(7, 2)}
\* index tuples of the grid's rank, and tuples of another rank
KernelIndices(shape) ==
    [1..Len(shape) -> IndexValues]
    \cup {t \in {<<>>, <<RInt(0)>>, <<RInt(0), RInt(1)>>, <<RInt(0), RInt(0), RInt(0)>>} :
             Len(t) # Len(shape)}

\* the longitudes that normalize_longitude is called on, in units: the f32
\* values within four units of these whole degrees
LonDegrees == {-540, -360, -181, -180, -90, 0, 90, 179, 180, 360, 540}
LonInputs ==
    {x \in {Units(d) + e : d \in LonDegrees, e \in (-4)..4} : f32_nearest(x) = x}

\* the slabs and longitude coordinates that adjust_for_dateline_crossing is
\* called on: slabs of up to three columns and an empty one, coordinates
\* in ascending or descending order on either side of the seam
SlabShapes == {<<0, 0>>, <<1, 1>>, <<1, 2>>, <<1, 3>>, <<2, 3>>}
SeamLongitudes == {-170, -10, 10, 170}
LonVectors ==
    UNION {{c \in [1..n -> SeamLongitudes] :
               \/ \A i \in 1..(n - 1) : c[i] < c[i + 1]
               \/ \A i \in 1..(n - 1) : c[i] > c[i + 1]} : n \in 0..3}

\* the datasets that get_data_slice_with_dims is called on: t2m over lat and
\* lon alone, over time, lat and lon, and over time, level, lat and lon, in
\* every order of its dimensions
SliceSizes == Sizes4("time", DimLen, "level", 2, "lat", DimLen, "lon", DimLen + 1)
SliceOrders ==
    Perms({Nm("lat"), Nm("lon")}) \cup Perms({Nm("time"), Nm("lat"), Nm("lon")})
    \cup Perms({Nm("time"), Nm("level"), Nm("lat"), Nm("lon")})
SliceFiles == {MkFile(SliceSizes, OneVar("t2m", o), VarBase) : o \in SliceOrders}
SliceStates ==
    UNION {{r.val : r \in {x \in LoadOutcomes(f, GoodConfig(NoAliases, Budget)) : x.ok}} :
              f \in SliceFiles}
\* the indices supplied for the other dimensions, and the boxes
SliceIndices ==
    UNION {[names -> 0..1] : names \in SUBSET {Nm("time"), Nm("level")}}
SliceBoxes == {<<140, 30, 160, 40>>, <<150, 40, 160, 40>>}

\* the slabs that are rendered: slabs without rows or columns, slabs of
\* fewer than four and of four points per axis, and slabs more than twice
\* as wide or as high as the image; with finite values, and with one that
\* is not
RenderShapes ==
    {<<0, 0>>, <<0, 1>>, <<2, 0>>, <<1, 1>>, <<2, 3>>, <<4, 4>>, <<1, 5>>, <<5, 2>>,
     <<2, 7>>, <<2, 10>>}
RenderSlabs ==
    {MkArray(shape, 1) : shape \in RenderShapes}
    \cup {[MkArray(shape, 1) EXCEPT !.data[1] = NaN] : shape \in {<<1, 1>>, <<2, 3>>, <<2, 10>>}}
RenderSizes == {<<2, 2>>, <<3, 2>>, <<4, 3>>, <<9, 9>>}
ResamplingNames == InterpolatorNames \cup {"auto", "none", "lanczos"}

\* the calls
RenderCall(data, width, height, resampling, overflow_checks) ==
    [fn |-> "generate_image", data |-> data, width |-> width, height |-> height,
     resampling |-> resampling, overflow_checks |-> overflow_checks]
SliceCall(st, v, b, dim_indices, overflow_checks) ==
    [fn |-> "get_data_slice_with_dims", st |-> st, var |-> v, bbox |-> b,
     dim_indices |-> dim_indices, overflow_checks |-> overflow_checks]
AdjustCall(data, lon_coords, crosses_dateline) ==
    [fn |-> "adjust_for_dateline_crossing", data |-> data, lon_coords |-> lon_coords,
     crosses_dateline |-> crosses_dateline]
NormalizeCall(lon) == [fn |-> "normalize_longitude", lon |-> lon]
KernelCall(name, data, shape, indices) ==
    [fn |-> "interpolate", kernel |-> name, data |-> data, shape |-> shape,
     indices |-> indices]
ElementCall(st, v, x) == [fn |-> "json_element", st |-> st, var |-> v, value |-> x]
FindCall(st, d, v) == [fn |-> "find_coordinate_index", st |-> st, dim |-> d, value |-> v]
ResolveCall(st, n) == [fn |-> "resolve_dimension", st |-> st, name |-> n]
ExtractCall(st, v, m) == [fn |-> "extract_variable_data", st |-> st, var |-> v, ranges |-> m]

InitPure ==
    /\ pc = "called"
    /\ \/ \E st \in ResolveStates : \E n \in PureNames : call = ResolveCall(st, n)
       \/ \E st \in ExtractStates :
             \E v \in DOMAIN st.metadata.variables : \E m \in RangeMaps(st) :
                call = ExtractCall(st, v, m)
       \/ \E st \in FindStates : \E d \in FindNames : \E v \in QueryValues :
             call = FindCall(st, d, v)
       \/ \E st \in ElementStates : \E x \in RawValues : call = ElementCall(st, "t2m", x)
       \/ \E name \in InterpolatorNames : \E shape \in KernelShapes :
             \E data \in KernelData(shape) : \E indices \in KernelIndices(shape) :
                call = KernelCall(name, data, shape, indices)
       \/ \E lon \in LonInputs : call = NormalizeCall(lon)
       \/ \E shape \in SlabShapes : \E c \in LonVectors : \E crosses \in BOOLEAN :
             call = AdjustCall(MkArray(shape, 1), c, crosses)
       \/ \E st \in SliceStates : \E b \in SliceBoxes : \E m \in SliceIndices :
             \E checks \in BOOLEAN : call = SliceCall(st, "t2m", b, m, checks)
       \/ \E data \in RenderSlabs : \E size \in RenderSizes : \E r \in ResamplingNames :
             \E checks \in BOOLEAN : call = RenderCall(data, size[1], size[2], r, checks)
    /\ ret = NoRet
    /\ cfg = IF "st" \in DOMAIN call THEN call.st.config ELSE GoodConfig(NoAliases, Budget)
    /\ file = FileStd
    /\ app = NoApp
    /\ steps = <<>>
    /\ slots = [s \in 1..NumSlots |-> Idle]

Returned(r) ==
    /\ pc = "called"
    /\ pc' = "returned"
    /\ ret' = r
    /\ UNCHANGED <<cfg, file, app, steps, slots, call>>

ApplyResolve ==
    /\ call.fn = "resolve_dimension"
    /\ Returned(resolve_dimension(call.st, call.name))

ApplyExtract ==
    /\ call.fn = "extract_variable_data"
    /\ Returned(extract_variable_data(call.st, call.var, call.ranges))

ApplyFind ==
    /\ call.fn = "find_coordinate_index"
    /\ Returned(find_coordinate_index(call.st, call.dim, call.value))

ApplyElement ==
    /\ call.fn = "json_element"
    /\ Returned(Ok(json_element(call.st.metadata.variables[call.var], call.value)))

ApplyInterpolate ==
    /\ call.fn = "interpolate"
    /\ Returned(interpolate_with(call.kernel, call.data, call.shape, call.indices))

ApplyNormalize ==
    /\ call.fn = "normalize_longitude"
    /\ Returned(Ok(normalize_longitude(call.lon)))

ApplyAdjust ==
    /\ call.fn = "adjust_for_dateline_crossing"
    /\ Returned(adjust_for_dateline_crossing(call.data, call.lon_coords,
                                             call.crosses_dateline))

ApplySlice ==
    /\ call.fn = "get_data_slice_with_dims"
    /\ Returned(get_data_slice_with_dims(call.st, call.var, call.bbox, call.dim_indices,
                                         call.overflow_checks))

\* the resampling and the rendering of generate_image_response
ApplyRender ==
    /\ call.fn = "generate_image"
    /\ Returned(AndThen(resample_if_needed(call.data, call.width, call.height,
                                           call.resampling),
                        LAMBDA data : generate_image(data, call.width, call.height,
                                                     call.resampling, call.overflow_checks)))

NextPure ==
    \/ ApplyResolve
    \/ ApplyExtract
    \/ ApplyFind
    \/ ApplyElement
    \/ ApplyInterpolate
    \/ ApplyNormalize
    \/ ApplyAdjust
    \/ ApplySlice
    \/ ApplyRender

SpecPure == InitPure /\ [][NextPure]_vars

(***************************************************************************)
(* Startup and concurrency                                                 *)
(***************************************************************************)
\* a connection has been or can be accepted
Accepting == pc = "serving" \/ \E s \in 1..NumSlots : slots[s].ep # "idle"

\* the startup steps a, b and c have succeeded, in this order
SucceededInOrder(a, b, c) ==
    \E i, j, k \in DOMAIN steps :
        i < j /\ j < k /\ steps[i] = a /\ steps[j] = b /\ steps[k] = c

\* C1: connections are accepted only after configuration validation, dataset
\* loading and dataset validation have each succeeded, in that order; when
\* one of them fails, startup aborts and no connection is ever accepted
C1_AcceptsOnlyAfterValidation ==
    /\ Accepting =>
          /\ SucceededInOrder("validate_config", "load_netcdf", "validate_state")
          /\ Config_validate(cfg).ok
          /\ load_netcdf_file(file).ok
          /\ validate_netcdf_data(file.metadata, file.data).ok
          /\ AppState_validate(app).ok
    /\ pc = "aborted" => ~Accepting /\ "serve" \notin Range(steps)
    /\ ~Config_validate(cfg).ok => pc \in {"start", "logging", "config_loaded", "aborted"}
    /\ ~(load_netcdf_file(file).ok /\ validate_netcdf_data(file.metadata, file.data).ok)
          => pc \in {"start", "logging", "config_loaded", "config_valid", "aborted"}

\* a request is served to its end by a server that went through startup
C1_Witness ==
    /\ pc = "serving"
    /\ Len(steps) = Len(StartupSteps)
    /\ \E s \in 1..NumSlots : slots[s].stage = "done" /\ slots[s].resp[1].status = 200

\* the states that loading the file under the configuration can produce
LoadedStates == {r.val : r \in {x \in LoadOutcomes(file, cfg) : x.ok}}

DataRanged(s) ==
    /\ slots[s].ep = "data"
    /\ "coords" \in DOMAIN slots[s].tmp
    /\ DOMAIN slots[s].tmp.coords # {}

StatusOf(s) == slots[s].resp[1].status

\* C3: a /data request with valid selectors is answered 413 exactly when its
\* point count exceeds max_data_points (a count equal to the limit is
\* served), and nothing has been sliced when it is refused
C3_BudgetRefusesAboveLimit ==
    \A s \in 1..NumSlots :
        DataRanged(s) =>
            /\ slots[s].stage = "done" =>
                  (StatusOf(s) = 413
                      <=> total_points(slots[s].tmp.coords) > app.config.server.max_data_points)
            /\ total_points(slots[s].tmp.coords) > app.config.server.max_data_points =>
                  /\ slots[s].stage \in {"ranged", "done"}
                  /\ slots[s].sliced = 0
                  /\ Len(slots[s].tmp.arrays) = 0

\* a request one point above the limit's multiple is refused with 413
C3_Witness ==
    \E s \in 1..NumSlots :
        /\ DataRanged(s) /\ slots[s].stage = "done"
        /\ StatusOf(s) = 413
        /\ slots[s].resp[1].body.error = "PayloadTooLarge"
        /\ total_points(slots[s].tmp.coords) = 2 * app.config.server.max_data_points

\* the product of (end - start + 1) over the dimensions of the first
\* requested variable
FirstVariablePoints(s) ==
    Prod([i \in DOMAIN app.metadata.variables[slots[s].req.vars[1]].dimensions |->
            slots[s].tmp.ranges[app.metadata.variables[slots[s].req.vars[1]].dimensions[i]][2]
            - slots[s].tmp.ranges[app.metadata.variables[slots[s].req.vars[1]].dimensions[i]][1]
            + 1])

\* C4: the count compared against max_data_points is the product over the
\* dimensions of the first requested variable only
C4_CountIsOverFirstVariable ==
    \A s \in 1..NumSlots :
        DataRanged(s) /\ slots[s].stage = "done" =>
            (StatusOf(s) = 413 <=> FirstVariablePoints(s) > app.config.server.max_data_points)

(***************************************************************************)
(* resolve_dimension and extract_variable_data                             *)
(***************************************************************************)
ReturnedFrom(fn) == pc = "returned" /\ call.fn = fn

\* C5: resolve_dimension(n) is n when n is a dimension; else the alias of
\* the canonical name that follows a leading `_` when that alias is a
\* dimension; else the alias of n when that is a dimension; else
\* DimensionNotFound.  A successful result is a dimension.
C5_ResolutionOrder ==
    ReturnedFrom("resolve_dimension") =>
        /\ IF call.name \in DOMAIN call.st.metadata.dimensions
           THEN ret = Ok(call.name)
           ELSE IF /\ call.name[1] = US
                   /\ Tail(call.name) \in DOMAIN call.st.config.data.dimension_aliases
                   /\ call.st.config.data.dimension_aliases[Tail(call.name)]
                         \in DOMAIN call.st.metadata.dimensions
                THEN ret = Ok(call.st.config.data.dimension_aliases[Tail(call.name)])
           ELSE IF /\ call.name \in DOMAIN call.st.config.data.dimension_aliases
                   /\ call.st.config.data.dimension_aliases[call.name]
                         \in DOMAIN call.st.metadata.dimensions
                THEN ret = Ok(call.st.config.data.dimension_aliases[call.name])
           ELSE ret = Err("DimensionNotFound")
        /\ ret.ok => ret.val \in DOMAIN call.st.metadata.dimensions

\* `_latitude` is no dimension but has an alias of its own that is one: the
\* alias of `latitude` is returned, not the alias of `_latitude`
C5_Witness ==
    /\ ReturnedFrom("resolve_dimension")
    /\ call.name = <<US, "latitude">>
    /\ call.name \notin DOMAIN call.st.metadata.dimensions
    /\ call.name \in DOMAIN call.st.config.data.dimension_aliases
    /\ call.st.config.data.dimension_aliases[call.name] = Nm("lon")
    /\ Nm("lon") \in DOMAIN call.st.metadata.dimensions
    /\ ret = Ok(Nm("lat"))

\* the axes (1-based positions) of the called variable
CallDims == call.st.metadata.variables[call.var].dimensions
\* start and end of an axis under the call's map; an axis that the map does
\* not mention is taken in full
AxisStart(i) == IF CallDims[i] \in DOMAIN call.ranges THEN call.ranges[CallDims[i]][1] ELSE 0
AxisEnd(i) ==
    IF CallDims[i] \in DOMAIN call.ranges THEN call.ranges[CallDims[i]][2]
    ELSE call.st.data[call.var].shape[i] - 1
AxisKept(i) == CallDims[i] \notin DOMAIN call.ranges \/ AxisStart(i) < AxisEnd(i)
KeptAxes == SelectSeq([i \in DOMAIN CallDims |-> i], AxisKept)
\* the source index that the offsets o of the result stand for
SourceIndex(o) ==
    [i \in DOMAIN CallDims |->
        AxisStart(i) + (IF AxisKept(i)
                        THEN o[CHOOSE k \in DOMAIN KeptAxes : KeptAxes[k] = i]
                        ELSE 0)]

C7_NoSelectorsKeepsShape ==
    \A s \in 1..NumSlots :
        (/\ slots[s].ep = "data" /\ slots[s].stage = "done"
         /\ StatusOf(s) = 200
         /\ DOMAIN slots[s].req.params = {})
        => \A i \in DOMAIN slots[s].req.vars :
              slots[s].resp[1].body.shapes[i] = app.metadata.variables[slots[s].req.vars[i]].shape

\* the canonical names whose alias is a dimension of the dataset
AliasedCanonicals(st) ==
    {c \in DOMAIN st.config.data.dimension_aliases :
        st.config.data.dimension_aliases[c] \in DOMAIN st.metadata.dimensions}

\* C8: `__<c>_index=i`, c a canonical name whose alias is the dimension d,
\* constrains d to the index i
C8_CanonicalRawIndex ==
    \A s \in 1..NumSlots :
        DataRanged(s) =>
            \A c \in AliasedCanonicals(app) :
                DOMAIN slots[s].req.params = {<<US, US>> \o c \o SufIndex}
                => slots[s].tmp.ranges[app.config.data.dimension_aliases[c]]
                       = <<slots[s].req.params[<<US, US>> \o c \o SufIndex][1].n,
                           slots[s].req.params[<<US, US>> \o c \o SufIndex][1].n>>

\* the request with the other spelling of the time index
OtherTimeKey(k) == IF k = KeyTimeIndex THEN KIndex("time") ELSE KeyTimeIndex
OtherTimeRequest(req) ==
    [req EXCEPT !.params = [k \in {OtherTimeKey(CHOOSE x \in DOMAIN req.params : TRUE)} |->
                               req.params[CHOOSE x \in DOMAIN req.params : TRUE]],
                !.order = <<OtherTimeKey(CHOOSE x \in DOMAIN req.params : TRUE)>>]
\* the index ranges that a request selects
RangesOf(st, req) ==
    AndThen(parse_data_query(st, req), LAMBDA sel : select_ranges(st, sel))

\* C9: `time_index=i` and `__time_index=i` select the same hyperslab, index
\* i of the time dimension, and constrain no other dimension
C9_TimeIndexSpellingsAgree ==
    \A s \in 1..NumSlots :
        (DataRanged(s) /\ DOMAIN slots[s].req.params \in {{KeyTimeIndex}, {KIndex("time")}})
        => /\ RangesOf(app, OtherTimeRequest(slots[s].req)).ok
           /\ RangesOf(app, OtherTimeRequest(slots[s].req)).val.ranges = slots[s].tmp.ranges
           /\ \A d \in DOMAIN slots[s].tmp.ranges :
                 d # Nm("time") => slots[s].tmp.ranges[d] = <<0, app.metadata.dimensions[d] - 1>>

(***************************************************************************)
(* /point: the time selector                                               *)
(***************************************************************************)
\* C10: `__time_index` wins over a physical `time`/`_time`, which wins over
\* the legacy `time_index`
C10_PointTimePrecedence ==
    \A s \in 1..NumSlots :
        (slots[s].ep = "point" /\ slots[s].stage = "selected") =>
            IF IsSome(slots[s].req.uu_time_index)
            THEN slots[s].tmp.time_index = slots[s].req.uu_time_index[1]
            ELSE IF IsSome(FirstSome(slots[s].req.time, slots[s].req.u_time))
            THEN Ok(slots[s].tmp.time_index)
                   = find_coordinate_index_exact(app, Nm("time"),
                         FirstSome(slots[s].req.time, slots[s].req.u_time)[1])
            ELSE IsSome(slots[s].req.time_index)
                 => slots[s].tmp.time_index = slots[s].req.time_index[1]

\* the request with its parameters yielded in the opposite order
Reordered(req) == [req EXCEPT !.order = Reverse(req.order)]

\* a `__<d>_index` key of the request that the code reads as a raw index of
\* the dimension d, next to the key `<d>` with a physical value
RawAndPhysical(st, req, d) ==
    /\ DOMAIN req.params = {d, <<US, US>> \o d \o SufIndex}
    /\ has_dimension(st, d)
    /\ raw_index_dimension(st, d) = Some(d)

\* C11: when `__<d>_index=i` and `<d>=v` constrain the same dimension d, the
\* selected range of d is (i, i), whatever the order in which the parameter
\* map yields the two keys
C11_RawIndexWinsOverValue ==
    \A s \in 1..NumSlots :
        DataRanged(s) =>
            \A d \in DOMAIN app.metadata.dimensions :
                RawAndPhysical(app, slots[s].req, d) =>
                    /\ slots[s].tmp.ranges[d]
                          = <<slots[s].req.params[<<US, US>> \o d \o SufIndex][1].n,
                              slots[s].req.params[<<US, US>> \o d \o SufIndex][1].n>>
                    /\ RangesOf(app, Reordered(slots[s].req))
                          = Ok(Sel(slots[s].tmp.ranges, slots[s].tmp.coords))

(***************************************************************************)
(* find_coordinate_index                                                   *)
(***************************************************************************)
\* the coordinate array of the call's dimension
CallCoords == call.st.metadata.coordinates[resolve_dimension(call.st, call.dim).val]
\* the indices (0-based) of the coordinates closest to the call's value
Closest ==
    {i \in 0..(Len(CallCoords) - 1) :
        \A j \in 0..(Len(CallCoords) - 1) :
            Abs(CallCoords[i + 1] - call.value) <= Abs(CallCoords[j + 1] - call.value)}

DataServed(s) ==
    /\ slots[s].ep = "data" /\ slots[s].stage = "done"
    /\ StatusOf(s) = 200

\* the flattened values of variable i in the body of slot s
EmittedValues(s, i) ==
    IF slots[s].resp[1].body.kind = "json"
    THEN [p \in DOMAIN slots[s].resp[1].body.data[i] |-> slots[s].resp[1].body.data[i][p][1]]
    ELSE slots[s].resp[1].body.columns[Len(slots[s].resp[1].body.columns)
                                       - Len(slots[s].req.vars) + i]

\* the axis order that the request of slot s asks for
AxisOrder(s) == dimension_order(app, slots[s].req.vars, slots[s].req.layout)
\* the number of indices selected on dimension d
Extent(s, d) == slots[s].tmp.ranges[d][2] - slots[s].tmp.ranges[d][1] + 1
\* the position of dimension d in the axis order
AxisOf(s, d) == CHOOSE k \in DOMAIN AxisOrder(s) : AxisOrder(s)[k] = d
\* the axis order names exactly the dimensions of variable v, and no
\* dimension is cut down to a single index
Orders(s, v) ==
    /\ Len(AxisOrder(s)) = Len(app.metadata.variables[v].dimensions)
    /\ Range(AxisOrder(s)) = Range(app.metadata.variables[v].dimensions)
    /\ \A d \in Range(AxisOrder(s)) : Extent(s, d) > 1
\* the stored value of variable v that belongs at the offsets o of the axis
\* order
StoredAt(s, v, o) ==
    VarBase[v]
    + Encode([j \in DOMAIN app.metadata.variables[v].dimensions |->
                 slots[s].tmp.ranges[app.metadata.variables[v].dimensions[j]][1]
                 + o[AxisOf(s, app.metadata.variables[v].dimensions[j])]], 0)

\* C13: the reported shape of every variable and the order of its flattened
\* values follow the axis order of `layout` when it is given, and the first
\* variable's dimension order otherwise
C13_LayoutOrdersTheData ==
    \A s \in 1..NumSlots :
        DataServed(s) =>
            \A i \in DOMAIN slots[s].req.vars :
                Orders(s, slots[s].req.vars[i]) =>
                    /\ slots[s].resp[1].body.shapes[i]
                          = [k \in DOMAIN AxisOrder(s) |-> Extent(s, AxisOrder(s)[k])]
                    /\ \A p \in DOMAIN EmittedValues(s, i) :
                          EmittedValues(s, i)[p]
                              = StoredAt(s, slots[s].req.vars[i],
                                         Unflat(slots[s].resp[1].body.shapes[i], p - 1))

\* the attributes of the variable of the call, with their defaults
CallAttrs == call.st.metadata.variables[call.var].attributes
CallScale == IF "scale_factor" \in DOMAIN CallAttrs THEN CallAttrs["scale_factor"] ELSE 1
CallOffset == IF "add_offset" \in DOMAIN CallAttrs THEN CallAttrs["add_offset"] ELSE 0

\* C14: an element of a variable's JSON array is null when the raw value is
\* the variable's _FillValue or when the value is not finite, and otherwise
\* the number raw * scale_factor + add_offset; nothing else is written
C14_ElementsAreNullOrNumbers ==
    ReturnedFrom("json_element") =>
        IF \/ "_FillValue" \in DOMAIN CallAttrs /\ call.value = CallAttrs["_FillValue"]
           \/ ~is_finite(call.value)
           \/ ~is_finite(call.value * CallScale + CallOffset)
        THEN ret.val = None
        ELSE ret.val = Some(call.value * CallScale + CallOffset)

\* the chunks of the JSON stream of slot s
Chunks(s) == slots[s].resp[1].body.chunks
\* the position of the name chunk of the i-th variable, and the position
\* after the variable's last chunk
NameAt(s, i) ==
    CHOOSE k \in DOMAIN Chunks(s) :
        /\ Chunks(s)[k].kind = "name"
        /\ Cardinality({j \in 1..k : Chunks(s)[j].kind = "name"}) = i
EndAt(s, i) == IF i = Len(slots[s].req.vars) THEN Len(Chunks(s)) ELSE NameAt(s, i + 1)
\* the chunks between the name of the i-th variable and the next name
VarChunks(s, i) == SubSeq(Chunks(s), NameAt(s, i) + 1, EndAt(s, i) - 1)
\* the elements of a sequence of data chunks, one after the other
RECURSIVE ElementsOf(_)
ElementsOf(chunks) ==
    IF Len(chunks) = 0 THEN <<>> ELSE Head(chunks).elements \o ElementsOf(Tail(chunks))

\* C15: the JSON stream is the metadata prefix, then for each requested
\* variable in request order its name and data chunks of at most CHUNK_SIZE
\* elements that carry the variable's flattened elements in order, the last
\* of them closing the array, then the suffix
C15_StreamIsWellFormed ==
    \A s \in 1..NumSlots :
        (DataServed(s) /\ slots[s].resp[1].body.kind = "json") =>
            /\ Chunks(s)[1].kind = "prefix"
            /\ Chunks(s)[Len(Chunks(s))].kind = "suffix"
            /\ \A k \in 2..(Len(Chunks(s)) - 1) : Chunks(s)[k].kind \in {"name", "data"}
            /\ Cardinality({k \in DOMAIN Chunks(s) : Chunks(s)[k].kind = "name"})
                  = Len(slots[s].req.vars)
            /\ \A i \in DOMAIN slots[s].req.vars :
                  /\ Chunks(s)[NameAt(s, i)].var = slots[s].req.vars[i]
                  /\ \A k \in DOMAIN VarChunks(s, i) :
                        /\ VarChunks(s, i)[k].kind = "data"
                        /\ Len(VarChunks(s, i)[k].elements) \in 1..CHUNK_SIZE
                        /\ VarChunks(s, i)[k].closes <=> k = Len(VarChunks(s, i))
                  /\ Len(VarChunks(s, i)) >= 1
                  /\ ElementsOf(VarChunks(s, i))
                        = [p \in DOMAIN slots[s].tmp.arrays[i].data |->
                              json_element(app.metadata.variables[slots[s].req.vars[i]],
                                           slots[s].tmp.arrays[i].data[p])]

\* the columns of the Arrow record batch of slot s, and the number of its
\* dimension columns
Columns(s) == slots[s].resp[1].body.columns
DimColumns(s) == Len(Columns(s)) - Len(slots[s].req.vars)
\* the selected coordinate array of the k-th dimension column
ColumnCoords(s, k) == slots[s].tmp.coords[slots[s].resp[1].body.fields[k]]
\* an Arrow record batch has been emitted for slot s
BatchEmitted(s) == DataServed(s) /\ slots[s].resp[1].body.kind = "arrow"

\* C16: all columns of an emitted record batch have the length N of the
\* first variable's extracted array, and entry i of a dimension column is
\* coord[i mod n_d] of the dimension's selected coordinate array
C16_ColumnsShareOneLength ==
    \A s \in 1..NumSlots :
        BatchEmitted(s) =>
            /\ \A k \in DOMAIN Columns(s) : Len(Columns(s)[k]) = ArrLen(slots[s].tmp.arrays[1])
            /\ \A k \in 1..DimColumns(s) :
                  \A i \in 0..(Len(Columns(s)[k]) - 1) :
                      Columns(s)[k][i + 1]
                          = ColumnCoords(s, k)[(i % Len(ColumnCoords(s, k))) + 1]

\* a batch with a repeated single coordinate and a coordinate array that is
\* shorter than the batch and starts over after its last value
C16_Witness ==
    \E s \in 1..NumSlots :
        /\ BatchEmitted(s)
        /\ Len(Columns(s)[1]) > 2
        /\ \E k \in 1..DimColumns(s) : Len(ColumnCoords(s, k)) = 1
        /\ \E k \in 1..DimColumns(s) :
              /\ Len(ColumnCoords(s, k)) > 1
              /\ Len(ColumnCoords(s, k)) < Len(Columns(s)[k])
              /\ Columns(s)[k][Len(ColumnCoords(s, k)) + 1] = ColumnCoords(s, k)[1]

(***************************************************************************)
(* The interpolation kernels                                               *)
(***************************************************************************)
\* the kernel k has returned
KernelDone(k) == ReturnedFrom("interpolate") /\ call.kernel = k
\* the call has one index per axis and as many values as the grid has points
WellFormed ==
    /\ Len(call.indices) = Len(call.shape)
    /\ Len(call.data) = Prod(call.shape)
\* the stored value at a tuple of integers
Stored(t) == f32_as_f64(call.data[1 + Flat(call.shape, t)])
\* the integers nearest to the fractional number x: two when x lies
\* half-way between them
NearestInts(x) ==
    {k \in RFloor(x)..(RFloor(x) + 1) : 2 * Abs(x[1] - k * x[2]) <= x[2]}
\* an integer clamped to the axis i
ClampTo(k, i) == IF k < 0 THEN 0 ELSE Min2(k, call.shape[i] - 1)
\* the tuples of the per-axis indices rounded to a nearest integer and
\* clamped to the grid
RoundedTuples ==
    {t \in [DOMAIN call.shape -> 0..4] :
        \A i \in DOMAIN call.shape :
            \E k \in NearestInts(call.indices[i]) : t[i] = ClampTo(k, i)}

\* C17: nearest interpolation returns flat_data at the row-major offset of
\* the per-axis indices rounded to the nearest integer and clamped to
\* [0, shape[k]-1]
C17_NearestReturnsTheRoundedElement ==
    (KernelDone("nearest") /\ WellFormed) =>
        \E t \in RoundedTuples : ret = Ok(Stored(t))

\* the per-axis blend (1-f)*I(i0) + f*I(i1) from axis k on, with
\* i0 = floor of the clamped index, i1 = min(i0+1, shape[k]-1), f = index-i0;
\* at the upper boundary, where i0 = i1, it is I(i0)
RECURSIVE Blend(_, _)
BlendAt(t, k, c) ==
    IF RFloor(c) = Min2(RFloor(c) + 1, call.shape[k] - 1)
    THEN Blend([t EXCEPT ![k] = RInt(RFloor(c))], k + 1)
    ELSE RAdd(RMul(RSub(RInt(1), RSub(c, RInt(RFloor(c)))),
                   Blend([t EXCEPT ![k] = RInt(RFloor(c))], k + 1)),
              RMul(RSub(c, RInt(RFloor(c))),
                   Blend([t EXCEPT ![k] = RInt(RFloor(c) + 1)], k + 1)))
Blend(t, k) ==
    IF k > Len(call.shape) THEN Stored([i \in DOMAIN t |-> RFloor(t[i])])
    ELSE BlendAt(t, k, RMin(RMax(t[k], RInt(0)), RInt(call.shape[k] - 1)))

\* C18: bilinear interpolation returns the recursive per-axis blend of the
\* stored neighbours, whatever the indices are
C18_BilinearIsTheBlend ==
    (KernelDone("bilinear") /\ WellFormed) => ret = Ok(Blend(call.indices, 1))

\* the indices of the call are integers within the grid
AtGridPoint ==
    /\ WellFormed
    /\ \A i \in DOMAIN call.shape :
          call.indices[i][2] = 1 /\ call.indices[i][1] \in 0..(call.shape[i] - 1)

\* C19: at every integer index tuple within shape, nearest and bilinear
\* interpolation, and bicubic interpolation when every axis has at least 4
\* points, return the stored value at that tuple
C19_GridPointsAreReproduced ==
    (/\ ReturnedFrom("interpolate")
     /\ AtGridPoint
     /\ (call.kernel = "bicubic" => \A i \in DOMAIN call.shape : call.shape[i] >= 4))
    => ret = Ok(Stored([i \in DOMAIN call.shape |-> call.indices[i][1]]))

\* C20: each kernel returns an Interpolation error when the number of
\* indices differs from the rank of the grid or the number of values from
\* the number of grid points
C20_MismatchIsAnError ==
    (ReturnedFrom("interpolate") /\ ~WellFormed) => ret = Err("Interpolation")

(***************************************************************************)
(* C25: normalize_longitude                                                *)
(***************************************************************************)
NormalizeDone == pc = "returned" /\ call.fn = "normalize_longitude"

\* the f32 values that lie a whole number of turns from the call's longitude
Turned == {x \in {call.lon + k * Units(360) : k \in (-2)..2} : f32_nearest(x) = x}

\* C25: normalize_longitude returns a value in [-180, 180), returns its own
\* results unchanged, and returns the same value for longitudes that lie a
\* whole number of turns apart.
C25_NormalizeIsAProjection ==
    NormalizeDone =>
        /\ Units(-180) <= ret.val /\ ret.val < Units(180)
        /\ normalize_longitude(ret.val) = ret.val
        /\ \A x \in Turned : normalize_longitude(x) = ret.val


(***************************************************************************)
(* C24: adjust_for_dateline_crossing                                       *)
(***************************************************************************)
\* a call with a non-empty slab, one longitude per column and the flag set
AdjustDone ==
    /\ pc = "returned" /\ call.fn = "adjust_for_dateline_crossing"
    /\ call.crosses_dateline
    /\ ArrLen(call.data) > 0
    /\ Len(call.lon_coords) = call.data.shape[2]

\* the number of columns east of the seam
EastOfSeam == Len(call.lon_coords) - dateline_idx_of(call.lon_coords)

\* C24: the returned slab is the input followed by copies of the columns
\* east of the seam in their order, each appended longitude is that of the
\* copied column plus 360, and the slab is as wide as the longitude vector
\* is long.
C24_SeamColumnsAreReplicated ==
    AdjustDone =>
        LET w == call.data.shape[2]
            k == EastOfSeam
            out == ret.val
        IN  /\ ret.ok
            /\ out.data.shape = <<call.data.shape[1], w + k>>
            /\ Len(out.lon_coords) = w + k
            /\ \A r \in 0..(call.data.shape[1] - 1) :
                  /\ \A c \in 0..(w - 1) : At(out.data, <<r, c>>) = At(call.data, <<r, c>>)
                  /\ \A j \in 0..(k - 1) :
                        At(out.data, <<r, w + j>>) = At(call.data, <<r, w - k + j>>)
            /\ \A c \in 1..w : out.lon_coords[c] = call.lon_coords[c]
            /\ \A j \in 1..k : out.lon_coords[w + j] = call.lon_coords[w - k + j] + 360


(***************************************************************************)
(* C26: what a validated dataset guarantees                                *)
(***************************************************************************)
\* the invariants of the data model, for the metadata and arrays m
VariablesAgree(m) ==
    \A v \in DOMAIN m.metadata.variables :
        LET var == m.metadata.variables[v]
        IN  /\ Len(var.shape) = Len(var.dimensions)
            /\ \A i \in DOMAIN var.dimensions :
                  /\ var.dimensions[i] \in DOMAIN m.metadata.dimensions
                  /\ var.shape[i] = m.metadata.dimensions[var.dimensions[i]]
            /\ v \in DOMAIN m.data
            /\ m.data[v].shape = var.shape
            /\ Len(m.data[v].data) = Prod(var.shape)
CoordinatesAgree(m) ==
    \A d \in DOMAIN m.metadata.dimensions :
        /\ d \in DOMAIN m.metadata.coordinates
        /\ Len(m.metadata.coordinates[d]) = m.metadata.dimensions[d]
CoordinatesFinite(m) ==
    \A d \in DOMAIN m.metadata.coordinates :
        \A i \in DOMAIN m.metadata.coordinates[d] : is_finite(m.metadata.coordinates[d][i])

Validated == "validate_state" \in Range(steps)

\* C26: once loading and validation have succeeded the dataset satisfies
\* the invariants of the data model, and a file that violates one of them is
\* never loaded and validated.
C26_ValidatedDatasetIsWellFormed ==
    /\ Validated => VariablesAgree(app) /\ CoordinatesAgree(app) /\ CoordinatesFinite(app)
    /\ (file.exists /\ file.opens
         /\ ~(VariablesAgree(file) /\ CoordinatesAgree(file) /\ CoordinatesFinite(file)))
          => ~Validated


(***************************************************************************)
(* C28: the ranges that /data slices with                                  *)
(***************************************************************************)
\* the request of slot s has been parsed into selectors
DataParsed(s) == slots[s].ep = "data" /\ "selectors" \in DOMAIN slots[s].tmp

\* the range selectors of the request of slot s
RangeSelectorsOf(s) ==
    {slots[s].tmp.selectors[i] : i \in DOMAIN slots[s].tmp.selectors}
        \cap {x \in Range(slots[s].tmp.selectors) : x.kind \in {"ValueRange", "IndexRange"}}

\* the bounds a range selector resolves to, when both resolve
ResolvedBounds(x) ==
    IF x.kind = "IndexRange" THEN Some(<<x.a, x.b>>)
    ELSE IF find_coordinate_index(app, x.dimension, x.a).ok
            /\ find_coordinate_index(app, x.dimension, x.b).ok
         THEN Some(<<find_coordinate_index(app, x.dimension, x.a).val,
                     find_coordinate_index(app, x.dimension, x.b).val>>)
    ELSE None

ResolvesReversed(x) == IsSome(ResolvedBounds(x)) /\ ResolvedBounds(x)[1][1] > ResolvedBounds(x)[1][2]

\* C28: a range that /data has accepted satisfies 0 <= start <= end < size
\* of its dimension, and a request with a range that resolves with
\* start > end is answered 400 before anything is sliced.
C28_AcceptedRangesAreOrdered ==
    \A s \in 1..NumSlots :
        DataParsed(s) =>
            /\ DataRanged(s) =>
                  \A x \in RangeSelectorsOf(s) :
                      LET r == slots[s].tmp.ranges[x.dimension]
                      IN  /\ 0 <= r[1] /\ r[1] <= r[2]
                          /\ r[2] < app.metadata.dimensions[x.dimension]
            /\ (slots[s].stage = "done" /\ \E x \in RangeSelectorsOf(s) : ResolvesReversed(x)) =>
                  /\ StatusOf(s) = 400
                  /\ slots[s].sliced = 0


(***************************************************************************)
(* C22: the variables that /image accepts                                  *)
(***************************************************************************)
\* the /image request of slot s has been answered
ImageDone(s) == slots[s].ep = "image" /\ slots[s].stage = "done"

\* the alias table identifies dimension d as one of the canonical names:
\* resolve_dimension maps a canonical name to d
IdentifiedAs(st, canonical, d) == \E n \in canonical : resolve_dimension(st, n) = Ok(d)

\* variable v has a dimension identified as latitude and one as longitude
SpatialByAliases(st, v) ==
    /\ \E d \in Range(st.metadata.variables[v].dimensions) :
          IdentifiedAs(st, {Nm("lat"), Nm("latitude")}, d)
    /\ \E d \in Range(st.metadata.variables[v].dimensions) :
          IdentifiedAs(st, {Nm("lon"), Nm("longitude")}, d)

\* the request of slot s was refused as VariableNotSuitableForImage
NotSuitable(s) ==
    /\ slots[s].resp[1].status = 400
    /\ slots[s].resp[1].body = ErrorBody("VariableNotSuitableForImage")

\* C22: /image refuses an existing variable as VariableNotSuitableForImage
\* exactly when the alias table does not identify a latitude and a longitude
\* among its dimensions.
C22_SuitableIffAliasesIdentifyLatLon ==
    \A s \in 1..NumSlots :
        (ImageDone(s) /\ has_variable(app, slots[s].req.var)) =>
            (NotSuitable(s) <=> ~SpatialByAliases(app, slots[s].req.var))


(***************************************************************************)
(* C30: the slab of a box that is not inverted                             *)
(***************************************************************************)
\* the /image request of slot s has passed its validation and its slab has
\* been read
ImageSliced(s) == ImageDone(s) /\ slots[s].sliced = 1

\* the box that the request of slot s selects with is not inverted
BoxNotInverted(s) ==
    /\ slots[s].tmp.bbox[1] <= slots[s].tmp.bbox[3]
    /\ slots[s].tmp.bbox[2] <= slots[s].tmp.bbox[4]

\* the request of slot s was answered with an image of a slab that has a
\* row and a column
RenderedWithCells(s) ==
    /\ slots[s].resp[1].status = 200
    /\ slots[s].resp[1].body.slab.shape[1] >= 1
    /\ slots[s].resp[1].body.slab.shape[2] >= 1

\* C30: for a box that is not inverted, over coordinates that are sorted and
\* not empty, the slab that is rendered has at least one row and one column,
\* also when the box lies between two grid points or beside the grid.
C30_SlabOfProperBoxHasCells ==
    \A s \in 1..NumSlots : (ImageSliced(s) /\ BoxNotInverted(s)) => RenderedWithCells(s)


(***************************************************************************)
(* C29: the slab of a box across the seam                                  *)
(***************************************************************************)
LatNames == {Nm("lat"), Nm("latitude")}
LonNames == {Nm("lon"), Nm("longitude")}

\* the value that the dataset stores for variable v at latitude index la and
\* longitude index lo, at the indices idx of the other dimensions (0 for a
\* dimension that idx does not name)
StoredAtLatLon(st, v, idx, la, lo) ==
    At(st.data[v],
       [i \in DOMAIN st.metadata.variables[v].dimensions |->
           LET d == st.metadata.variables[v].dimensions[i]
           IN  IF d \in LatNames THEN la
               ELSE IF d \in LonNames THEN lo
               ELSE IF d \in DOMAIN idx THEN idx[d] ELSE 0])

\* the indices of the coordinates from lo to hi, in ascending order
IndicesWithin(coords, lo, hi) ==
    SelectSeq([i \in 1..Len(coords) |-> i - 1],
              LAMBDA i : lo <= coords[i + 1] /\ coords[i + 1] <= hi)

\* the latitude rows that the request of slot s asks for
RequestedRows(s) ==
    IndicesWithin(slice_coords(app, Nm("lat"), Nm("latitude")).val,
                  slots[s].tmp.bbox[2], slots[s].tmp.bbox[4])

\* the box of the request of slot s was classified as crossing the seam
CrossesSeam(s) == ImageSliced(s) /\ slots[s].tmp.crosses

\* the slab has the requested rows and every value of a row is a value that
\* the dataset stores in that row at the time step of the request
SlabOfStoredRows(s, slab) ==
    /\ Len(slab.shape) = 2
    /\ slab.shape[1] = Len(RequestedRows(s))
    /\ slab.shape[2] >= 1
    /\ \A i \in 0..(slab.shape[1] - 1) : \A j \in 0..(slab.shape[2] - 1) :
          \E lo \in 0..(Len(slice_coords(app, Nm("lon"), Nm("longitude")).val) - 1) :
              At(slab, <<i, j>>) =
                  StoredAtLatLon(app, slots[s].req.var,
                           [d \in {Nm("time")} |-> slots[s].tmp.time_index],
                           RequestedRows(s)[i + 1], lo)

\* C29: for a box classified as crossing the seam the slab that is rendered
\* consists of the stored values of the requested latitude rows, never of
\* placeholder values.
C29_SeamSlabHoldsStoredValues ==
    \A s \in 1..NumSlots :
        CrossesSeam(s) =>
            /\ slots[s].resp[1].status = 200
            /\ SlabOfStoredRows(s, slots[s].resp[1].body.slab)


(***************************************************************************)
(* C23: the orientation of the image                                       *)
(***************************************************************************)
\* the longitude columns that the request of slot s asks for
RequestedCols(s) ==
    IndicesWithin(slice_coords(app, Nm("lon"), Nm("longitude")).val,
                  slots[s].tmp.bbox[1], slots[s].tmp.bbox[3])

\* the requested part of the variable with latitude as rows, south first,
\* and longitude as columns, west first
LatLonSlab(s) ==
    [shape |-> <<Len(RequestedRows(s)), Len(RequestedCols(s))>>,
     data  |-> [p \in 1..(Len(RequestedRows(s)) * Len(RequestedCols(s))) |->
                   StoredAtLatLon(app, slots[s].req.var,
                       [d \in {Nm("time")} |-> slots[s].tmp.time_index],
                       RequestedRows(s)[((p - 1) \div Len(RequestedCols(s))) + 1],
                       RequestedCols(s)[((p - 1) % Len(RequestedCols(s))) + 1])]]

\* the image whose pixel (x, y) samples the lat x lon slab at latitude index
\* y (h - 1) / (H - 1) and longitude index x (w - 1) / (W - 1)
DirectImage(slab, width, height, resampling) ==
    LET min_val == min_val_of(slab)
        max_val == max_val_of(slab)
        kernel  == image_kernel(resampling, slab.shape[2], slab.shape[1], width, height)
    IN  [p \in 1..(width * height) |->
            pixel_of(interpolate_with(kernel, slab.data, slab.shape,
                         <<Rat(((p - 1) \div width) * (slab.shape[1] - 1), height - 1),
                           Rat(((p - 1) % width) * (slab.shape[2] - 1), width - 1)>>),
                     min_val, max_val)]

\* the request of slot s was answered with an image of a part of the grid
\* that is not across the seam
RenderedPart(s) ==
    /\ ImageSliced(s) /\ slots[s].resp[1].status = 200
    /\ ~slots[s].tmp.crosses
    /\ Len(RequestedRows(s)) > 0 /\ Len(RequestedCols(s)) > 0

\* the latitudes of the dataset ascend
LatitudeAscends ==
    \A i \in 1..(Len(slice_coords(app, Nm("lat"), Nm("latitude")).val) - 1) :
        slice_coords(app, Nm("lat"), Nm("latitude")).val[i]
            < slice_coords(app, Nm("lat"), Nm("latitude")).val[i + 1]

\* C23: whatever the order of the latitude and longitude dimensions of the
\* variable, pixel (x, y) of the image samples latitude index y (h-1)/(H-1)
\* and longitude index x (w-1)/(W-1) of the requested part: row 0 is the
\* southernmost latitude and column 0 the westernmost longitude.
C23_ImageMapsLatLonDirectly ==
    \A s \in 1..NumSlots :
        (RenderedPart(s) /\ LatitudeAscends) =>
            slots[s].resp[1].body.pixels
                = DirectImage(LatLonSlab(s), slots[s].req.width[1], slots[s].req.height[1],
                              resampling_of(slots[s].req))


(***************************************************************************)
(* C21: the image of a finite slab under `auto`                            *)
(***************************************************************************)
\* the request of slot s, with the default resampling, selects a part of
\* the grid that has cells, and all its values are finite
AutoOverFiniteSlab(s) ==
    /\ ImageSliced(s)
    /\ resampling_of(slots[s].req) = "auto"
    /\ ~slots[s].tmp.crosses
    /\ Len(RequestedRows(s)) > 0 /\ Len(RequestedCols(s)) > 0
    /\ \A p \in DOMAIN LatLonSlab(s).data : is_finite(LatLonSlab(s).data[p])

\* the request of slot s was answered with an image of the requested size
\* that has a pixel which is not transparent
VisibleImage(s) ==
    /\ slots[s].resp[1].status = 200
    /\ slots[s].resp[1].body.width = slots[s].req.width[1]
    /\ slots[s].resp[1].body.height = slots[s].req.height[1]
    /\ Len(slots[s].resp[1].body.pixels) = slots[s].req.width[1] * slots[s].req.height[1]
    /\ \E p \in DOMAIN slots[s].resp[1].body.pixels :
          slots[s].resp[1].body.pixels[p].alpha # 0

\* C21: with the default resampling, the image of a slab of finite values
\* has the requested size and at least one pixel that is not transparent,
\* also when an axis of the slab has fewer than 4 points and the image is
\* more than twice the size of the slab.
C21_AutoImageOfFiniteSlabIsVisible ==
    \A s \in 1..NumSlots : AutoOverFiniteSlab(s) => VisibleImage(s)


(***************************************************************************)
(* C27: the axes that get_data_slice_with_dims contracts                   *)
(***************************************************************************)
SliceDone == pc = "returned" /\ call.fn = "get_data_slice_with_dims"

\* the box of the call, over latitude rows and longitude columns, at the
\* indices that the call supplies for the other dimensions
ContractedSlab ==
    LET rows == IndicesWithin(call.st.metadata.coordinates[Nm("lat")], call.bbox[2], call.bbox[4])
        cols == IndicesWithin(call.st.metadata.coordinates[Nm("lon")], call.bbox[1], call.bbox[3])
    IN  [shape |-> <<Len(rows), Len(cols)>>,
         data  |-> [p \in 1..(Len(rows) * Len(cols)) |->
                       StoredAtLatLon(call.st, call.var, call.dim_indices,
                                      rows[((p - 1) \div Len(cols)) + 1],
                                      cols[((p - 1) % Len(cols)) + 1])]]

\* C27: whatever the number and the order of the other dimensions,
\* get_data_slice_with_dims contracts each of them at the index supplied
\* for its own name (0 when none is supplied) and returns the slab whose
\* element [i, j] is the stored value at latitude index i and longitude
\* index j of the box.
C27_OtherAxesContractedAtTheirOwnIndex ==
    SliceDone => (ret.ok /\ ret.val = ContractedSlab)


====
